---- MODULE Spec2Model ----
(***************************************************************************)
(* Model of the retrieval-augmented generation pipeline of                 *)
(* core/rag_service.py (RAGService) and of the handlers of                 *)
(* core/testing_agent.py (TestingAgent) that drive it.                     *)
(*                                                                         *)
(* Text is a sequence of characters; a character is a natural number and   *)
(* the number 0 stands for a whitespace character, so that str.strip() and *)
(* the "any page has non-whitespace text" test are computed, not assumed.  *)
(* A path is a sequence of one-character strings, so that str.endswith()   *)
(* is computed on the characters.                                          *)
(* A Python method is an operator from the object's fields (self) and the  *)
(* call's inputs to the fields after the call, what was returned or raised *)
(* and what the call did on the way (backend calls, log lines).            *)
(***************************************************************************)
EXTENDS Integers, Sequences, FiniteSets, TLC

\* ------------------------------------------------------------------ bounds

\* Longest batch of file paths handed to one load_and_process_documents call.
MaxBatch == 2

\* Number of load_and_process_documents calls in one run (build identifiers).
MaxBuilds == 2

\* Number of load_and_process_documents calls in one run of the batch
\* specification, which draws every batch up to MaxBatch files.
MaxBatchBuilds == 1

\* Longest directly extracted PDF (pages) the loader specification draws.
MaxPages == 2

\* Rendered page counts drawn around the OCR cap: cap - 1 .. cap + MaxOver.
MaxOver == 1

\* Longest text (characters) of a unit in the configured-build specification.
MaxText == 4

\* Number of load_and_process_documents calls in one run of the retrieval
\* specification.
MaxRetrievalBuilds == 1

\* Most files the sources directory of the examples specification holds.
MaxExamples == 4

\* Most load_and_process_documents calls in the handler specifications.
MaxAgentBuilds == 1

\* Longest cURL command (words) the parser specification draws.
MaxCurl == 4

\* Longest generated text (characters) the formatting specification draws.
MaxFormat == 5

\* Longest generated code string (tokens) the marker repair specification draws.
MaxCode == 3

\* Largest chunk_size a pipeline of the configured-build specification has.
MaxChunkSize == 3

\* Number of load_and_process_documents calls in one run of the
\* configured-build specification.
MaxChunkBuilds == 1

\* ------------------------------------------------------- program constants

\* _extract_text_with_ocr(self, pdf_path, max_pages = 87)
OcrMaxPages == 87

\* as_retriever(search_kwargs = {"k": 5})
RetrieverK == 5

\* RAGService.__init__(chunk_size = 500, chunk_overlap = 100)
ChunkSizeDefault == 500

ChunkOverlapDefault == 100

\* TestingAgent.generate_test_with_docs(examples_count = 3)
ExamplesCountDefault == 3

\* -------------------------------------------------------------------- text

\* c.isspace() for one character.
IsSpace(c) == c = 0

\* not s.strip(): the text has no non-whitespace character.
IsBlank(s) == \A i \in 1..Len(s) : IsSpace(s[i])

\* s.strip(): leading and trailing whitespace removed.
Strip(s) ==
  IF IsBlank(s) THEN <<>>
  ELSE LET lo == CHOOSE i \in 1..Len(s) :
                   ~IsSpace(s[i]) /\ \A j \in 1..(i - 1) : IsSpace(s[j])
           hi == CHOOSE i \in 1..Len(s) :
                   ~IsSpace(s[i]) /\ \A j \in (i + 1)..Len(s) : IsSpace(s[j])
       IN  SubSeq(s, lo, hi)

\* path.endswith(suffix)
EndsWith(path, suffix) ==
  /\ Len(path) >= Len(suffix)
  /\ SubSeq(path, Len(path) - Len(suffix) + 1, Len(path)) = suffix

ExtPdf == <<".", "p", "d", "f">>

ExtJava == <<".", "j", "a", "v", "a">>

ExtPy == <<".", "p", "y">>

\* ------------------------------------------------------------- exceptions

\* No exception: the call returned.
NoExc == [type |-> "none", site |-> "none"]

\* raise ValueError("Не удалось загрузить ни одного документа")
ExcNoDocuments == [type |-> "ValueError", site |-> "load_and_process_documents"]

\* raise ValueError("Векторное хранилище не инициализировано. ...")
ExcNotInitialized == [type |-> "ValueError", site |-> "query"]

\* self.rag.vector_store.similarity_search with vector_store None
ExcNoneAttribute == [type |-> "AttributeError", site |-> "generate_test_with_docs"]

\* The exception classes a collaborator (file system, PDF reader, rasterizer,
\* OCR, embedding model, chain constructors, generation backend) may raise; the
\* code catches or re-raises them by the base class Exception only.
CollaboratorExcTypes == {"RuntimeError"}

\* ---------------------------------------------------------------- loader

\* Document(page_content = ..., metadata = ...)
Document(page_content, metadata) ==
  [page_content |-> page_content, metadata |-> metadata]

\* Document(page_content = text): langchain's default metadata is {}.
NoMetadata == [k \in {} |-> ""]

\* parts[lo] + ... + parts[hi], in order (halving keeps the evaluation
\* shallow for long sequences).
RECURSIVE Concat(_, _, _)
Concat(parts, lo, hi) ==
  IF lo > hi THEN <<>>
  ELSE IF lo = hi THEN parts[lo]
  ELSE Concat(parts, lo, (lo + hi) \div 2)
         \o Concat(parts, (lo + hi) \div 2 + 1, hi)

\* The loop with `break` in place of `continue`: the first page whose
\* recognition raises ends the loop.
OcrLoopBreak(images) ==
  Concat([i \in 1..Len(images) |->
            IF \E j \in 1..i : images[j].fails THEN <<>> ELSE images[i].text],
         1, Len(images))

\* The loop of _extract_text_with_ocr over images[:max_pages]: each iteration
\* adds page_text to text (text += page_text), or nothing when the page's
\* recognition raises (`continue`).
OcrLoop(images) ==
  Concat([i \in 1..Len(images) |->
            IF images[i].fails THEN <<>> ELSE images[i].text],
         1, Len(images))

\* images with no cap on the pages.
TakeAll(s, n) == s

\* images[:max_pages]
Take(s, n) == SubSeq(s, 1, IF Len(s) < n THEN Len(s) ELSE n)

\* RAGService._extract_text_with_ocr: convert_from_path may raise; the pages
\* recognised are those of images[:max_pages]. ocr_pages counts the calls of
\* pytesseract.image_to_string.
ExtractTextWithOcr(file, max_pages) ==
  IF file.render_raises
  THEN [raised |-> TRUE, text |-> <<>>, ocr_pages |-> 0]
  ELSE [raised |-> FALSE,
        text |-> OcrLoop(Take(file.images, max_pages)),
        ocr_pages |-> Len(Take(file.images, max_pages))]

\* PyPDFLoader(pdf_path).load(): one Document per page, tagged by the reader
\* with the source path and the page number.
PyPdfLoad(file) ==
  [i \in 1..Len(file.pages) |->
     Document(file.pages[i], [source |-> file.path, page |-> i - 1])]

\* The fallback test without the whitespace check: `if docs:`.
HasDirectTextAnyPage(docs) == docs # <<>>

\* docs and any(doc.page_content.strip() for doc in docs)
HasDirectText(docs) ==
  /\ docs # <<>>
  /\ \E i \in 1..Len(docs) : ~IsBlank(docs[i].page_content)

\* _load_pdf with the OCR fallback also taken when the direct read raises.
LoadPdfFallbackOnError(file) ==
  LET docs == IF file.raises THEN <<>> ELSE PyPdfLoad(file) IN
  IF HasDirectText(docs)
  THEN [raised |-> FALSE, docs |-> docs, ocr_runs |-> 0, ocr_pages |-> 0]
  ELSE LET ocr == ExtractTextWithOcr(file, OcrMaxPages) IN
       IF ocr.raised
       THEN [raised |-> TRUE, docs |-> <<>>, ocr_runs |-> 1, ocr_pages |-> 0]
       ELSE [raised |-> FALSE,
             docs |-> << Document(ocr.text, NoMetadata) >>,
             ocr_runs |-> 1, ocr_pages |-> ocr.ocr_pages]

\* RAGService._load_pdf. ocr_runs counts the calls of _extract_text_with_ocr.
LoadPdf(file) ==
  IF file.raises
  THEN [raised |-> TRUE, docs |-> <<>>, ocr_runs |-> 0, ocr_pages |-> 0]
  ELSE LET docs == PyPdfLoad(file) IN
       IF HasDirectText(docs)
       THEN [raised |-> FALSE, docs |-> docs, ocr_runs |-> 0, ocr_pages |-> 0]
       ELSE LET ocr == ExtractTextWithOcr(file, OcrMaxPages) IN
            IF ocr.raised
            THEN [raised |-> TRUE, docs |-> <<>>, ocr_runs |-> 1,
                  ocr_pages |-> 0]
            ELSE [raised |-> FALSE,
                  docs |-> << Document(ocr.text, NoMetadata) >>,
                  ocr_runs |-> 1, ocr_pages |-> ocr.ocr_pages]

\* RAGService._load_code_file
LoadCodeFile(file) ==
  IF file.raises
  THEN [raised |-> TRUE, docs |-> <<>>, ocr_runs |-> 0, ocr_pages |-> 0]
  ELSE [raised |-> FALSE,
        docs |-> << Document(file.content,
                     [source |-> file.path, file_type |-> "code",
                      language |-> IF EndsWith(file.path, ExtJava)
                                   THEN "java" ELSE "python"]) >>,
        ocr_runs |-> 0, ocr_pages |-> 0]

\* RAGService._load_text_file
LoadTextFile(file) ==
  IF file.raises
  THEN [raised |-> TRUE, docs |-> <<>>, ocr_runs |-> 0, ocr_pages |-> 0]
  ELSE [raised |-> FALSE,
        docs |-> << Document(file.content, [source |-> file.path]) >>,
        ocr_runs |-> 0, ocr_pages |-> 0]

\* The dispatch with '.java' alone as the suffix of a source-code file.
LoadFileJavaOnly(file) ==
  IF EndsWith(file.path, ExtPdf) THEN LoadPdf(file)
  ELSE IF EndsWith(file.path, ExtJava)
       THEN LoadCodeFile(file)
       ELSE LoadTextFile(file)

\* The per-file dispatch of load_and_process_documents.
LoadFile(file) ==
  IF EndsWith(file.path, ExtPdf) THEN LoadPdf(file)
  ELSE IF EndsWith(file.path, ExtJava) \/ EndsWith(file.path, ExtPy)
       THEN LoadCodeFile(file)
       ELSE LoadTextFile(file)

\* The loop without `continue`: the first file whose loader raises ends it.
RECURSIVE LoadLoopBreak(_, _, _, _)
LoadLoopBreak(batch, i, all_docs, skipped) ==
  IF i > Len(batch) THEN [all_docs |-> all_docs, skipped |-> skipped]
  ELSE LET r == LoadFile(batch[i]) IN
       IF r.raised
       THEN [all_docs |-> all_docs, skipped |-> Append(skipped, batch[i].path)]
       ELSE LoadLoopBreak(batch, i + 1, all_docs \o r.docs, skipped)

\* The loop with the units of each file put in front of those collected so far.
RECURSIVE LoadLoopPrepend(_, _, _, _)
LoadLoopPrepend(batch, i, all_docs, skipped) ==
  IF i > Len(batch) THEN [all_docs |-> all_docs, skipped |-> skipped]
  ELSE LET r == LoadFile(batch[i]) IN
       IF r.raised
       THEN LoadLoopPrepend(batch, i + 1, all_docs,
                            Append(skipped, batch[i].path))
       ELSE LoadLoopPrepend(batch, i + 1, r.docs \o all_docs, skipped)

\* all_docs.extend(docs) for each file in turn; a file whose loader raises is
\* logged (its path joins skipped) and the loop continues with the next file.
RECURSIVE LoadLoop(_, _, _, _)
LoadLoop(batch, i, all_docs, skipped) ==
  IF i > Len(batch) THEN [all_docs |-> all_docs, skipped |-> skipped]
  ELSE LET r == LoadFile(batch[i]) IN
       IF r.raised
       THEN LoadLoop(batch, i + 1, all_docs, Append(skipped, batch[i].path))
       ELSE LoadLoop(batch, i + 1, all_docs \o r.docs, skipped)

\* ------------------------------------------------------- chunks and index

\* Python's None.
None == [k \in {} |-> ""]

\* The text splitter the build constructs at lines 156-159 and runs at line
\* 160 is langchain's RecursiveCharacterTextSplitter with its default
\* separators ("\n\n", "\n", " ", "") and keep_separator. The whitespace
\* character 0 of a text is the space; the texts hold no newline, so the first
\* separator that can match is the space.

\* "".join(pieces)
JoinPieces(pieces) == Concat(pieces, 1, Len(pieces))

\* The pieces of a text split on the space with the separator kept at the
\* start of the piece that follows it; empty pieces are dropped. piece is the
\* piece being read, out the pieces before it.
RECURSIVE SplitKeepSpaceFrom(_, _, _, _)
SplitKeepSpaceFrom(text, i, piece, out) ==
  IF i > Len(text)
  THEN (IF piece = <<>> THEN out ELSE Append(out, piece))
  ELSE IF text[i] = 0
  THEN SplitKeepSpaceFrom(text, i + 1, <<0>>,
                          IF piece = <<>> THEN out ELSE Append(out, piece))
  ELSE SplitKeepSpaceFrom(text, i + 1, Append(piece, text[i]), out)

SplitKeepSpace(text) == SplitKeepSpaceFrom(text, 1, <<>>, <<>>)

\* list(text): the split on the last separator, "".
SplitChars(text) == [i \in 1..Len(text) |-> <<text[i]>>]

\* The while loop of the merge: pieces leave the front of current_doc while
\* they are longer in total than chunk_overlap, or while the next piece does
\* not fit behind them; total is the length of the pieces of current_doc.
RECURSIVE PopFront(_, _, _, _, _)
PopFront(current_doc, total, len, chunk_size, chunk_overlap) ==
  IF total > chunk_overlap \/ (total + len > chunk_size /\ total > 0)
  THEN PopFront(Tail(current_doc), total - Len(Head(current_doc)), len,
                chunk_size, chunk_overlap)
  ELSE [current_doc |-> current_doc, total |-> total]

\* The joined and stripped text of current_doc as a list of chunks: none when
\* nothing but whitespace is left.
JoinDocs(current_doc) ==
  IF IsBlank(JoinPieces(current_doc)) THEN <<>>
  ELSE << Strip(JoinPieces(current_doc)) >>

\* The merge of the pieces shorter than chunk_size into chunks: pieces are
\* added to current_doc until the next one does not fit; then current_doc is
\* emitted and its tail is kept as the overlap of the next chunk.
RECURSIVE MergeSplits(_, _, _, _, _, _, _)
MergeSplits(splits, i, current_doc, total, docs, chunk_size, chunk_overlap) ==
  IF i > Len(splits) THEN docs \o JoinDocs(current_doc)
  ELSE IF total + Len(splits[i]) > chunk_size /\ current_doc # <<>>
  THEN LET kept == PopFront(current_doc, total, Len(splits[i]), chunk_size,
                            chunk_overlap)
       IN  MergeSplits(splits, i + 1, Append(kept.current_doc, splits[i]),
                       kept.total + Len(splits[i]),
                       docs \o JoinDocs(current_doc),
                       chunk_size, chunk_overlap)
  ELSE MergeSplits(splits, i + 1, Append(current_doc, splits[i]),
                   total + Len(splits[i]), docs, chunk_size, chunk_overlap)

\* The loop of the splitter over the pieces of one split: pieces shorter than
\* chunk_size are collected and merged; a longer piece is split again on the
\* next separator (deeper), or emitted as it is when no separator is left.
RECURSIVE SplitPieces(_, _, _, _, _, _, _)
SplitPieces(splits, i, good_splits, final_chunks, chunk_size, chunk_overlap, deeper) ==
  LET merged == IF good_splits # <<>>
                THEN MergeSplits(good_splits, 1, <<>>, 0, <<>>, chunk_size,
                                 chunk_overlap)
                ELSE <<>>
  IN  IF i > Len(splits) THEN final_chunks \o merged
      ELSE IF Len(splits[i]) < chunk_size
      THEN SplitPieces(splits, i + 1, Append(good_splits, splits[i]),
                       final_chunks, chunk_size, chunk_overlap, deeper)
      ELSE SplitPieces(splits, i + 1, <<>>,
                       final_chunks \o merged
                         \o (IF deeper
                             THEN SplitPieces(SplitChars(splits[i]), 1, <<>>,
                                              <<>>, chunk_size, chunk_overlap,
                                              FALSE)
                             ELSE << splits[i] >>),
                       chunk_size, chunk_overlap, deeper)

\* split_text(text): the chunks of one text.
SplitText(text, chunk_size, chunk_overlap) ==
  IF \E i \in 1..Len(text) : text[i] = 0
  THEN SplitPieces(SplitKeepSpace(text), 1, <<>>, <<>>, chunk_size,
                   chunk_overlap, TRUE)
  ELSE SplitPieces(SplitChars(text), 1, <<>>, <<>>, chunk_size, chunk_overlap,
                   FALSE)

\* split_documents(documents): the chunks of each unit in turn, each chunk
\* with the metadata of its unit.
RECURSIVE SplitDocuments(_, _, _)
SplitDocuments(documents, chunk_size, chunk_overlap) ==
  IF documents = <<>> THEN <<>>
  ELSE LET texts == SplitText(Head(documents).page_content, chunk_size,
                              chunk_overlap)
       IN  [i \in 1..Len(texts) |->
              Document(texts[i], Head(documents).metadata)]
             \o SplitDocuments(Tail(documents), chunk_size, chunk_overlap)

\* The characters of a text that are not whitespace.
Chars(s) == {s[i] : i \in 1..Len(s)} \ {0}

\* Similarity of a chunk to a query: the embedding is abstracted to the set of
\* non-whitespace characters, the similarity to the number of shared ones.
Score(query, chunk) == Cardinality(Chars(query) \cap Chars(chunk.page_content))

\* A search that gives nothing when the index holds fewer than k chunks.
SimilaritySearchStrict(store, query, k) ==
  LET n == Len(store.chunks)
      Before(i, j) ==
        \/ Score(query, store.chunks[i]) > Score(query, store.chunks[j])
        \/ /\ Score(query, store.chunks[i]) = Score(query, store.chunks[j])
           /\ i < j
      Rank(i) == 1 + Cardinality({j \in 1..n : Before(j, i)})
  IN  [r \in 1..(IF n < k THEN 0 ELSE k) |->
         store.chunks[CHOOSE i \in 1..n : Rank(i) = r]]

\* vector_store.similarity_search(query, k): the k most similar chunks, most
\* similar first, equal scores in insertion order; all of them when the index
\* holds fewer than k.
SimilaritySearch(store, query, k) ==
  LET n == Len(store.chunks)
      Before(i, j) ==
        \/ Score(query, store.chunks[i]) > Score(query, store.chunks[j])
        \/ /\ Score(query, store.chunks[i]) = Score(query, store.chunks[j])
           /\ i < j
      Rank(i) == 1 + Cardinality({j \in 1..n : Before(j, i)})
  IN  [r \in 1..(IF n < k THEN n ELSE k) |->
         store.chunks[CHOOSE i \in 1..n : Rank(i) = r]]

\* ------------------------------------------------------------ RAGService

\* raise ValueError("Got a larger chunk overlap ... than chunk size ..."): the
\* splitter's constructor, called at line 156, rejects chunk_overlap > chunk_size.
ExcLargerOverlap == [type |-> "ValueError", site |-> "splitter"]

\* Lines 155-168 of _create_vector_store: construct the splitter, split, embed,
\* and assign the new FAISS index to self.vector_store. FAISS.from_documents
\* raises when the embedding model raises, and IndexError on an empty list of
\* chunks; in all these cases nothing has been assigned.
BuildIndex(self, documents, build, env) ==
  LET split_docs == SplitDocuments(documents, self.chunk_size, self.chunk_overlap)
  IN  IF self.chunk_overlap > self.chunk_size
      THEN [self |-> self, exc |-> ExcLargerOverlap]
      ELSE IF split_docs = <<>>
      THEN [self |-> self, exc |-> [type |-> "IndexError", site |-> "embedding"]]
      ELSE IF env.embed_exc # "none"
      THEN [self |-> self, exc |-> [type |-> env.embed_exc, site |-> "embedding"]]
      ELSE [self |-> [self EXCEPT !.vector_store =
                        [build |-> build, chunks |-> split_docs]],
            exc |-> NoExc]

\* _setup_retrieval_chain: the retriever is bound to the index self.vector_store
\* holds when the method runs; a chain constructor may raise before
\* self.retrieval_chain is assigned.
SetupRetrievalChain(self, env) ==
  IF env.setup_exc # "none"
  THEN [self |-> self, exc |-> [type |-> env.setup_exc, site |-> "chain_setup"]]
  ELSE [self |-> [self EXCEPT !.retrieval_chain =
                    [retriever |-> self.vector_store, k |-> RetrieverK]],
        exc |-> NoExc]

\* _create_vector_store: the except clause logs and re-raises.
CreateVectorStore(self, documents, build, env) ==
  LET built == BuildIndex(self, documents, build, env)
  IN  IF built.exc # NoExc THEN built
      ELSE SetupRetrievalChain(built.self, env)

\* load_and_process_documents
LoadAndProcessDocuments(self, batch, build, env) ==
  LET loaded == LoadLoop(batch, 1, <<>>, <<>>)
  IN  IF loaded.all_docs = <<>>
      THEN [self |-> self, exc |-> ExcNoDocuments,
            all_docs |-> loaded.all_docs, skipped |-> loaded.skipped]
      ELSE LET r == CreateVectorStore(self, loaded.all_docs, build, env)
           IN  [self |-> r.self, exc |-> r.exc,
                all_docs |-> loaded.all_docs, skipped |-> loaded.skipped]

\* A chain that calls the language model a second time with the first answer.
InvokeChainTwice(chain, question, env) ==
  IF env.search_exc # "none"
  THEN [exc |-> [type |-> env.search_exc, site |-> "retriever"],
        answer |-> <<>>, context |-> <<>>, llm_calls |-> 0,
        build |-> chain.retriever.build, question |-> question]
  ELSE LET context == SimilaritySearch(chain.retriever, question, chain.k)
       IN  IF env.llm_exc # "none"
           THEN [exc |-> [type |-> env.llm_exc, site |-> "llm"],
                 answer |-> <<>>, context |-> context, llm_calls |-> 1,
                 build |-> chain.retriever.build, question |-> question]
           ELSE [exc |-> NoExc, answer |-> env.answer,
                 context |-> context, llm_calls |-> 2,
                 build |-> chain.retriever.build, question |-> question]

\* retrieval_chain.invoke({'input': question}): the retriever searches its
\* index with k = 5, then the documents chain calls the language model once.
\* build names the index that was searched (0: none), question the input the
\* chain was invoked with.
InvokeChain(chain, question, env) ==
  IF env.search_exc # "none"
  THEN [exc |-> [type |-> env.search_exc, site |-> "retriever"],
        answer |-> <<>>, context |-> <<>>, llm_calls |-> 0,
        build |-> chain.retriever.build, question |-> question]
  ELSE LET context == SimilaritySearch(chain.retriever, question, chain.k)
       IN  IF env.llm_exc # "none"
           THEN [exc |-> [type |-> env.llm_exc, site |-> "llm"],
                 answer |-> <<>>, context |-> context, llm_calls |-> 1,
                 build |-> chain.retriever.build, question |-> question]
           ELSE [exc |-> NoExc, answer |-> env.answer,
                 context |-> context, llm_calls |-> 1,
                 build |-> chain.retriever.build, question |-> question]

\* query without its guard: None has no attribute invoke.
QueryNoGuard(self, question, env) ==
  IF self.retrieval_chain = None
  THEN [exc |-> [type |-> "AttributeError", site |-> "invoke"],
        answer |-> <<>>, context |-> <<>>, llm_calls |-> 0, build |-> 0,
        question |-> question]
  ELSE InvokeChain(self.retrieval_chain, question, env)

\* query
Query(self, question, env) ==
  IF self.retrieval_chain = None
  THEN [exc |-> ExcNotInitialized, answer |-> <<>>, context |-> <<>>,
        llm_calls |-> 0, build |-> 0, question |-> question]
  ELSE LET response == InvokeChain(self.retrieval_chain, question, env)
       IN  IF response.exc # NoExc
           THEN [response EXCEPT !.answer = <<>>, !.context = <<>>]
           ELSE response

\* The fixed text of an f-string template between two substituted values.
TemplateText == <<9>>

\* generate_java_test: the prompt is the template with context and prompt
\* substituted; the answer of query is returned.
GenerateJavaTest(self, context, prompt, env) ==
  Query(self, TemplateText \o context \o TemplateText \o prompt \o TemplateText,
        env)

\* generate_java_test_with_javadoc
GenerateJavaTestWithJavadoc(self, context, class_description, methods_desc, env) ==
  Query(self,
        TemplateText \o context \o TemplateText \o class_description
          \o TemplateText \o methods_desc \o TemplateText,
        env)

\* ------------------------------------------------------------- CurlParser
\* A cURL command is the sequence of its words, the runs of characters that
\* whitespace separates; a word is its characters (one-character strings) and
\* whether it is written between quotes, the quotes not being part of text.

Word(quoted, text) == [quoted |-> quoted, text |-> text]

WordCurl == Word(FALSE, <<"c", "u", "r", "l">>)

FlagX == <<"-", "X">>

FlagH == <<"-", "H">>

FlagD == <<"-", "d">>

FlagDataRaw == <<"-", "-", "d", "a", "t", "a", "-", "r", "a", "w">>

\* \w for the characters of the modelled words
IsWordChar(c) == c \notin {"-", ":", "/", "[", "]", "?", "=", "#", " "}

\* str.upper() for one character of the modelled words
UpperChar(c) ==
  CASE c = "c" -> "C" [] c = "u" -> "U" [] c = "r" -> "R" [] c = "l" -> "L"
    [] c = "h" -> "H" [] c = "a" -> "A" [] c = "b" -> "B" [] c = "q" -> "Q"
    [] OTHER -> c

Upper(text) == [i \in 1..Len(text) |-> UpperChar(text[i])]

\* The group (\w+) at the start of a word: its longest prefix of word characters.
WordPrefix(text) ==
  SubSeq(text, 1,
         Cardinality({i \in 1..Len(text) :
                        \A j \in 1..i : IsWordChar(text[j])}))

\* The least element of a non-empty set of positions: re.search takes the
\* leftmost match.
Leftmost(S) == CHOOSE i \in S : \A j \in S : i <= j

\* The positions at which  flag\s+['"]([^'"]+)['"]  matches: the word flag,
\* written without quotes, followed by a quoted word.
QuotedAfter(curl_command, flag) ==
  {i \in 1..(Len(curl_command) - 1) :
     /\ curl_command[i] = Word(FALSE, flag)
     /\ curl_command[i + 1].quoted
     /\ curl_command[i + 1].text # <<>>}

\* The positions at which  flag\s+([^\s]+)  or  flag\s+(\w+)  can match: the
\* word flag, written without quotes, followed by a word without quotes.
PlainAfter(curl_command, flag) ==
  {i \in 1..(Len(curl_command) - 1) :
     /\ curl_command[i] = Word(FALSE, flag)
     /\ ~curl_command[i + 1].quoted}

\* Lines 26-28: the word after -X, upper-cased, or 'GET'.
MethodOf(curl_command) ==
  LET S == {i \in PlainAfter(curl_command, FlagX) :
              WordPrefix(curl_command[i + 1].text) # <<>>}
  IN  IF S = {} THEN <<"G", "E", "T">>
      ELSE Upper(WordPrefix(curl_command[Leftmost(S) + 1].text))

\* Lines 31-32: the quoted word after a word curl if there is one, else the
\* word after the first word curl; found says whether either pattern matched.
UrlMatch(curl_command) ==
  LET Q == QuotedAfter(curl_command, WordCurl.text)
      P == PlainAfter(curl_command, WordCurl.text)
  IN  IF Q # {}
      THEN [found |-> TRUE, url |-> curl_command[Leftmost(Q) + 1].text]
      ELSE IF P # {}
      THEN [found |-> TRUE, url |-> curl_command[Leftmost(P) + 1].text]
      ELSE [found |-> FALSE, url |-> <<>>]

\* The position of the first character of text that is in chars, or
\* Len(text) + 1.
FirstOf(text, chars) ==
  IF \E i \in 1..Len(text) : text[i] \in chars
  THEN Leftmost({i \in 1..Len(text) : text[i] \in chars})
  ELSE Len(text) + 1

\* urlparse: what follows the scheme and its colon, or the whole text when
\* no scheme leads it.
AfterScheme(url) ==
  LET c == FirstOf(url, {":"})
  IN  IF c > 1 /\ c <= Len(url) /\ \A j \in 1..(c - 1) : IsWordChar(url[j])
      THEN SubSeq(url, c + 1, Len(url))
      ELSE url

\* urlparse(url).netloc: after '//' up to the next '/', '?' or '#'.
Netloc(url) ==
  LET rest == AfterScheme(url)
  IN  IF Len(rest) >= 2 /\ SubSeq(rest, 1, 2) = <<"/", "/">>
      THEN LET loc == SubSeq(rest, 3, Len(rest))
           IN  SubSeq(loc, 1, FirstOf(loc, {"/", "?", "#"}) - 1)
      ELSE <<>>

\* urlparse raises ValueError('Invalid IPv6 URL') when the netloc holds one
\* square bracket without the other.
UrlParseRaises(url) ==
  (\E i \in 1..Len(Netloc(url)) : Netloc(url)[i] = "[")
    # (\E i \in 1..Len(Netloc(url)) : Netloc(url)[i] = "]")

\* urlparse(url).query: after the first '?', up to a '#'.
UrlQuery(url) ==
  LET q == FirstOf(url, {"?"})
      rest == SubSeq(url, q + 1, Len(url))
  IN  SubSeq(rest, 1, FirstOf(rest, {"#"}) - 1)

\* An empty dict.
EmptyDict == <<>>

\* d[key] = value
DictSet(d, key, value) ==
  [k \in (DOMAIN d) \cup {key} |-> IF k = key THEN value ELSE d[k]]

\* parse_qs for a query of one field: name=value with a non-empty value gives
\* {name: [value]}, anything else gives {}.
ParseQs(query) ==
  LET e == FirstOf(query, {"="})
  IN  IF e < Len(query)
      THEN DictSet(EmptyDict, SubSeq(query, 1, e - 1),
                   << SubSeq(query, e + 1, Len(query)) >>)
      ELSE EmptyDict

\* Line 42: the quoted words after the words -H, in order.
HeadersOf(curl_command) ==
  LET S == QuotedAfter(curl_command, FlagH)
  IN  [n \in 1..Cardinality(S) |->
         curl_command[(CHOOSE i \in S :
                         Cardinality({j \in S : j <= i}) = n) + 1].text]

\* text.strip() for a text of one-character strings
StripText(text) ==
  LET S == {i \in 1..Len(text) : text[i] # " "}
  IN  IF S = {} THEN <<>>
      ELSE SubSeq(text, Leftmost(S), CHOOSE i \in S : \A j \in S : j <= i)

\* The header loop with a header that holds no colon left out.
RECURSIVE HeaderLoopLenient(_, _, _)
HeaderLoopLenient(headers, i, dict) ==
  IF i > Len(headers) THEN [raised |-> FALSE, headers |-> dict]
  ELSE LET c == FirstOf(headers[i], {":"}) IN
       IF c > Len(headers[i])
       THEN HeaderLoopLenient(headers, i + 1, dict)
       ELSE HeaderLoopLenient(
              headers, i + 1,
              DictSet(dict, StripText(SubSeq(headers[i], 1, c - 1)),
                      StripText(SubSeq(headers[i], c + 1, Len(headers[i])))))

\* Lines 43-45: key, value = header.split(':', 1) raises ValueError for a
\* header without a colon, the headers before it being stored already.
RECURSIVE HeaderLoop(_, _, _)
HeaderLoop(headers, i, dict) ==
  IF i > Len(headers) THEN [raised |-> FALSE, headers |-> dict]
  ELSE LET c == FirstOf(headers[i], {":"}) IN
       IF c > Len(headers[i])
       THEN [raised |-> TRUE, headers |-> dict]
       ELSE HeaderLoop(
              headers, i + 1,
              DictSet(dict, StripText(SubSeq(headers[i], 1, c - 1)),
                      StripText(SubSeq(headers[i], c + 1, Len(headers[i])))))

\* Lines 48-49: the quoted word after --data-raw, else after -d.
DataMatch(curl_command) ==
  LET R == QuotedAfter(curl_command, FlagDataRaw)
      D == QuotedAfter(curl_command, FlagD)
  IN  IF R # {}
      THEN [found |-> TRUE, text |-> curl_command[Leftmost(R) + 1].text]
      ELSE IF D # {}
      THEN [found |-> TRUE, text |-> curl_command[Leftmost(D) + 1].text]
      ELSE [found |-> FALSE, text |-> <<>>]

\* result['data'] = None
NoData == [kind |-> "none", text |-> <<>>]

\* What json.loads does with the text of a body: it returns a value, raises
\* JSONDecodeError, or raises RecursionError on a text nested too deep.
JsonOutcomes == {"value", "JSONDecodeError", "RecursionError"}

\* except Exception as e: result['error'] = str(e); return result
CurlFailed(result, message) ==
  [method |-> result.method, url |-> result.url, headers |-> result.headers,
   data |-> result.data, params |-> result.params, valid |-> result.valid,
   error |-> message]

\* Lines 47-57 of parse_curl: the body, and the result of a parse that ran to
\* its end. decode is what json.loads does with the body.
ParseCurlBody(result, curl_command, decode) ==
  LET data_match == DataMatch(curl_command)
  IN  IF ~data_match.found
      THEN [result EXCEPT !.valid = TRUE]
      ELSE IF decode = "RecursionError"
      THEN CurlFailed(result, "maximum recursion depth exceeded")
      ELSE [result EXCEPT
              !.data = [kind |-> IF decode = "value" THEN "json" ELSE "text",
                        text |-> data_match.text],
              !.valid = TRUE]

\* CurlParser.parse_curl
ParseCurl(curl_command, decode) ==
  LET result == [method |-> MethodOf(curl_command), url |-> <<>>,
                 headers |-> EmptyDict, data |-> NoData,
                 params |-> EmptyDict, valid |-> FALSE]
      url_match == UrlMatch(curl_command)
      found == [result EXCEPT !.url = url_match.url]
      parsed == [found EXCEPT !.params = ParseQs(UrlQuery(url_match.url))]
      looped == HeaderLoop(HeadersOf(curl_command), 1, EmptyDict)
      stored == [parsed EXCEPT !.headers = looped.headers]
  IN  IF ~url_match.found
      THEN CurlFailed(result, "URL not found in cURL command")
      ELSE IF UrlParseRaises(url_match.url)
      THEN CurlFailed(found, "Invalid IPv6 URL")
      ELSE IF looped.raised
      THEN CurlFailed(stored, "not enough values to unpack (expected 2, got 1)")
      ELSE ParseCurlBody(stored, curl_command, decode)

\* ----------------------------------------------------------- TestingAgent

\* The characters of generated code that the handlers tell apart, by their
\* code: the line feed and the backtick of a Markdown fence; 0 stands for any
\* other whitespace character and 1..9 for other characters.
Newline == 10

Backtick == 96

\* c.isspace() for one character of generated code.
IsCodeSpace(c) == c = 0 \/ c = Newline

\* code.strip()
StripCode(code) ==
  LET S == {i \in 1..Len(code) : ~IsCodeSpace(code[i])}
  IN  IF S = {} THEN <<>>
      ELSE SubSeq(code, CHOOSE i \in S : \A j \in S : i <= j,
                  CHOOSE i \in S : \A j \in S : j <= i)

\* The Markdown fence.
Fence == <<Backtick, Backtick, Backtick>>

\* code.startswith(prefix)
StartsWith(code, prefix) ==
  /\ Len(code) >= Len(prefix)
  /\ SubSeq(code, 1, Len(prefix)) = prefix

\* code.find(c): the index, counted from 0, of the first c, or -1.
Find(code, c) ==
  IF \E i \in 1..Len(code) : code[i] = c
  THEN (CHOOSE i \in 1..Len(code) :
          code[i] = c /\ \A j \in 1..(i - 1) : code[j] # c) - 1
  ELSE -1

\* code[n:] for n >= 0
From(code, n) == SubSeq(code, n + 1, Len(code))

\* TestingAgent._fix_code_formatting
FixCodeFormatting(code) ==
  IF StartsWith(code, Fence)
  THEN LET body == From(code, Find(code, Newline) + 1) IN
       IF EndsWith(body, Fence)
       THEN StripCode(SubSeq(body, 1, Len(body) - 3))
       ELSE StripCode(body)
  ELSE StripCode(code)

\* The opening documentation delimiter of generated code, a code string being
\* a sequence of tokens.
DocOpen == "/**"

\* required_tags = ["@author", "@version"]
RequiredTags == <<"@author", "@version">>

\* tag in code
Contains(code, tag) == \E i \in 1..Len(code) : code[i] = tag

\* code.replace("/**", f"/**\n * {tag} Generated"): every occurrence.
RECURSIVE ReplaceDocOpen(_, _)
ReplaceDocOpen(code, tag) ==
  IF code = <<>> THEN <<>>
  ELSE (IF Head(code) = DocOpen
        THEN <<DocOpen, "\n * ", tag, " Generated">>
        ELSE <<Head(code)>>) \o ReplaceDocOpen(Tail(code), tag)

\* The loop without the test `tag not in code`: a placeholder for every tag.
RECURSIVE ValidateJavadocLoopAlways(_, _)
ValidateJavadocLoopAlways(code, t) ==
  IF t > Len(RequiredTags) THEN code
  ELSE ValidateJavadocLoopAlways(ReplaceDocOpen(code, RequiredTags[t]), t + 1)

\* TestingAgent._validate_javadoc: the loop over required_tags.
RECURSIVE ValidateJavadocLoop(_, _)
ValidateJavadocLoop(code, t) ==
  IF t > Len(RequiredTags) THEN code
  ELSE IF ~Contains(code, RequiredTags[t])
       THEN ValidateJavadocLoop(ReplaceDocOpen(code, RequiredTags[t]), t + 1)
       ELSE ValidateJavadocLoop(code, t + 1)

ValidateJavadoc(code) == ValidateJavadocLoop(code, 1)

\* The text an f-string gives for a list of Documents: their contents in order.
RECURSIVE ReprDocs(_)
ReprDocs(docs) ==
  IF docs = <<>> THEN <<>>
  ELSE Head(docs).page_content \o ReprDocs(Tail(docs))

\* "\n".join(f"- {name}: {desc}" for name, desc in method_descriptions.items())
RECURSIVE MethodsDesc(_)
MethodsDesc(method_descs) ==
  IF method_descs = <<>> THEN <<>>
  ELSE Head(method_descs).name \o Head(method_descs).desc
         \o MethodsDesc(Tail(method_descs))

\* Lines 180-183 of generate_test_with_docs: self.rag.vector_store is read and
\* searched; None has no attribute similarity_search.
SearchExamples(rag, class_desc, examples_count, env) ==
  IF rag.vector_store = None
  THEN [exc |-> ExcNoneAttribute, docs |-> <<>>, build |-> 0]
  ELSE IF env.examples_exc # "none"
  THEN [exc |-> [type |-> env.examples_exc, site |-> "similarity_search"],
        docs |-> <<>>, build |-> rag.vector_store.build]
  ELSE [exc |-> NoExc,
        docs |-> SimilaritySearch(rag.vector_store, class_desc, examples_count),
        build |-> rag.vector_store.build]

\* Lines 186-198 of generate_test_with_docs: generation, marker repair, and the
\* result; TestingAgent defines no _extract_metadata, so building the result
\* raises AttributeError after the generation call has returned.
GenerateFromExamples(rag, found, class_desc, method_descs, env) ==
  LET g == GenerateJavaTestWithJavadoc(rag, ReprDocs(found.docs), class_desc,
                                       MethodsDesc(method_descs), env)
  IN  [exc |-> IF g.exc # NoExc THEN g.exc
               ELSE [type |-> "AttributeError", site |-> "_extract_metadata"],
       code |-> IF g.exc # NoExc THEN <<>> ELSE ValidateJavadoc(g.answer),
       examples |-> found.docs, examples_build |-> found.build,
       context |-> g.context, context_build |-> g.build,
       llm_calls |-> g.llm_calls, question |-> g.question,
       search_query |-> class_desc]

\* TestingAgent.generate_test_with_docs
GenerateTestWithDocs(rag, class_desc, method_descs, examples_count, env) ==
  LET s == SearchExamples(rag, class_desc, examples_count, env)
  IN  IF s.exc # NoExc
      THEN [exc |-> s.exc, code |-> <<>>, examples |-> <<>>,
            examples_build |-> s.build, context |-> <<>>, context_build |-> 0,
            llm_calls |-> 0, question |-> <<>>, search_query |-> class_desc]
      ELSE GenerateFromExamples(rag, s, class_desc, method_descs, env)

\* examples[:3] of generate_new_test
ExamplesInContext == 3

\* The name pattern of load_java_examples, glob('*Test.java').
ExampleSuffix == <<"T", "e", "s", "t", ".", "j", "a", "v", "a">>

IsExample(file) == EndsWith(file.file_name, ExampleSuffix)

\* TestingAgent.load_java_examples: the files of sources_dir that match, in
\* the order glob lists them, each with its content.
LoadJavaExamples(sources) == SelectSeq(sources, IsExample)

\* "\n".join(texts)
RECURSIVE JoinLines(_)
JoinLines(texts) ==
  IF texts = <<>> THEN <<>>
  ELSE IF Len(texts) = 1 THEN texts[1]
  ELSE Head(texts) \o <<Newline>> \o JoinLines(Tail(texts))

\* The code that stands for the word class in generated code.
ClassWord == 7

\* \w for a character of generated code
IsCodeWordChar(c) == ~IsCodeSpace(c) /\ c # Backtick

\* re.search(r'class\s+(\w+)', test_code): the word class, whitespace, and a
\* name; the file is named after the first such name, else GeneratedTest.
FileName(test_code) ==
  LET n == Len(test_code)
      NameAt(i) == CHOOSE j \in (i + 2)..n :
                     /\ ~IsCodeSpace(test_code[j])
                     /\ \A k \in (i + 1)..(j - 1) : IsCodeSpace(test_code[k])
      Match(i) == /\ test_code[i] = ClassWord
                  /\ i + 2 <= n
                  /\ IsCodeSpace(test_code[i + 1])
                  /\ \E j \in (i + 2)..n :
                       /\ IsCodeWordChar(test_code[j])
                       /\ \A k \in (i + 1)..(j - 1) : IsCodeSpace(test_code[k])
      S == {i \in 1..n : Match(i)}
      EndOf(j) == CHOOSE e \in j..n :
                    /\ \A k \in j..e : IsCodeWordChar(test_code[k])
                    /\ e < n => ~IsCodeWordChar(test_code[e + 1])
  IN  IF S = {} THEN [base_name |-> TRUE, class |-> <<>>]
      ELSE LET j == NameAt(Leftmost(S))
           IN  [base_name |-> FALSE, class |-> SubSeq(test_code, j, EndOf(j))]

\* JavaTestHandler.save_java_test: mkdir or open may raise, before anything is
\* written; else the file is written, over a file of the same name.
SaveJavaTest(generated, test_code, env) ==
  IF env.save_exc # "none"
  THEN [exc |-> [type |-> env.save_exc, site |-> "save_java_test"],
        generated |-> generated, file_path |-> FileName(test_code),
        writes |-> 0]
  ELSE [exc |-> NoExc,
        generated |-> DictSet(generated, FileName(test_code), test_code),
        file_path |-> FileName(test_code), writes |-> 1]

\* The outcome of a handler of TestingAgent: exc is what it raised, status,
\* error, file_path and code the dict it returned, generated the files of the
\* generated directory afterwards; gen_calls counts the calls of
\* rag.generate_java_test, gen_exc is what the last one raised, context and
\* prompt what it was given, writes counts the files written.
Outcome(exc, status, error, generated) ==
  [exc |-> exc, status |-> status, error |-> error, generated |-> generated,
   file_path |-> [base_name |-> TRUE, class |-> <<>>], code |-> <<>>,
   gen_calls |-> 0, gen_exc |-> NoExc, context |-> <<>>, prompt |-> <<>>,
   llm_calls |-> 0, writes |-> 0]

\* The handler with an except clause that saves an empty test when the
\* generation call raises.
GenerateAndSaveSwallow(rag, generated, context, prompt, env) ==
  LET g == GenerateJavaTest(rag, context, prompt, env)
      generated_code == IF g.exc # NoExc THEN <<>>
                        ELSE FixCodeFormatting(g.answer)
      saved == SaveJavaTest(generated, generated_code, env)
      called == [Outcome(NoExc, "none", "", generated) EXCEPT
                   !.gen_calls = 1, !.gen_exc = g.exc, !.context = context,
                   !.prompt = prompt, !.llm_calls = g.llm_calls]
  IN  IF saved.exc # NoExc THEN [called EXCEPT !.exc = saved.exc]
      ELSE [called EXCEPT !.status = "success", !.generated = saved.generated,
                          !.file_path = saved.file_path,
                          !.code = generated_code, !.writes = saved.writes]

\* Lines 66-84 and 136-148: the generation call, the formatting of the answer
\* and the saving of the file; an exception of any step leaves the handler.
GenerateAndSave(rag, generated, context, prompt, env) ==
  LET g == GenerateJavaTest(rag, context, prompt, env)
      generated_code == FixCodeFormatting(g.answer)
      saved == SaveJavaTest(generated, generated_code, env)
      called == [Outcome(g.exc, "none", "", generated) EXCEPT
                   !.gen_calls = 1, !.gen_exc = g.exc, !.context = context,
                   !.prompt = prompt, !.llm_calls = g.llm_calls]
  IN  IF g.exc # NoExc THEN called
      ELSE IF saved.exc # NoExc THEN [called EXCEPT !.exc = saved.exc]
      ELSE [called EXCEPT !.status = "success", !.generated = saved.generated,
                          !.file_path = saved.file_path,
                          !.code = generated_code, !.writes = saved.writes]

\* generate_new_test with every example in the context.
GenerateNewTestAllExamples(rag, sources, generated, requirements, env) ==
  LET examples == LoadJavaExamples(sources)
      context == JoinLines([i \in 1..Len(examples) |-> examples[i].content])
  IN  GenerateAndSave(rag, generated, context, TemplateText \o requirements,
                      env)

\* TestingAgent.generate_new_test
GenerateNewTest(rag, sources, generated, requirements, env) ==
  LET examples == Take(LoadJavaExamples(sources), ExamplesInContext)
      context == JoinLines([i \in 1..Len(examples) |-> examples[i].content])
  IN  GenerateAndSave(rag, generated, context, TemplateText \o requirements,
                      env)

\* The code of a character of a cURL command in a text.
CharCode(c) ==
  CASE c = " " -> 0 [] c = "#" -> 35 [] c = "-" -> 45 [] c = "/" -> 47
    [] c = ":" -> 58 [] c = "=" -> 61 [] c = "?" -> 63 [] c = "A" -> 65
    [] c = "B" -> 66 [] c = "C" -> 67 [] c = "E" -> 69 [] c = "G" -> 71
    [] c = "H" -> 72 [] c = "L" -> 76 [] c = "Q" -> 81 [] c = "R" -> 82
    [] c = "T" -> 84 [] c = "U" -> 85 [] c = "X" -> 88 [] c = "[" -> 91
    [] c = "]" -> 93 [] c = "a" -> 97 [] c = "b" -> 98 [] c = "c" -> 99
    [] c = "d" -> 100 [] c = "h" -> 104 [] c = "l" -> 108 [] c = "q" -> 113
    [] c = "r" -> 114 [] c = "t" -> 116 [] c = "u" -> 117 [] c = "w" -> 119

TextOf(chars) == [i \in 1..Len(chars) |-> CharCode(chars[i])]

\* The lines  - key: value  of a dict, one after the other; values is TRUE for
\* a dict of lists, joined with ', ' (a single value is itself).
RECURSIVE ItemLines(_, _)
ItemLines(dict, values) ==
  IF DOMAIN dict = {} THEN <<>>
  ELSE LET k == CHOOSE key \in DOMAIN dict : TRUE
           v == IF values THEN dict[k][1] ELSE dict[k]
       IN  TemplateText \o TextOf(k) \o TemplateText \o TextOf(v)
             \o <<Newline>>
             \o ItemLines([key \in (DOMAIN dict) \ {k} |-> dict[key]], values)

\* CurlParser.generate_test_description: raises ValueError for a result that
\* is not valid, else describes method, URL, headers, body and query.
GenerateTestDescription(curl_data) ==
  IF ~curl_data.valid
  THEN [exc |-> [type |-> "ValueError", site |-> "generate_test_description"],
        desc |-> <<>>]
  ELSE [exc |-> NoExc,
        desc |-> TemplateText \o TextOf(curl_data.method) \o TemplateText
                   \o TextOf(curl_data.url) \o <<Newline>>
                   \o (IF DOMAIN curl_data.headers # {}
                       THEN TemplateText \o ItemLines(curl_data.headers, FALSE)
                       ELSE <<>>)
                   \o (IF curl_data.data.kind # "none"
                       THEN TemplateText \o TextOf(curl_data.data.text)
                              \o <<Newline>>
                       ELSE <<>>)
                   \o (IF DOMAIN curl_data.params # {}
                       THEN TemplateText \o ItemLines(curl_data.params, TRUE)
                       ELSE <<>>)]

\* TestingAgent._generate_java_api_test: generate_java_test(prompt=prompt), the
\* context being its default ''.
GenerateJavaApiTest(rag, generated, test_desc, env) ==
  GenerateAndSave(rag, generated, <<>>,
                  TemplateText \o test_desc \o TemplateText, env)

\* TestingAgent._generate_python_api_test: not implemented, an error result.
GeneratePythonApiTest(generated, test_desc) ==
  Outcome(NoExc, "error", "Python tests not implemented yet", generated)

\* The dispatch on framework with python handled as java is.
DispatchPythonAsJava(rag, generated, test_desc, framework, env) ==
  IF framework \in {"java", "python"}
  THEN GenerateJavaApiTest(rag, generated, test_desc, env)
  ELSE Outcome(NoExc, "error", "Unsupported framework", generated)

\* Lines 117-125 of generate_api_test_from_curl: the dispatch on framework.
Dispatch(rag, generated, test_desc, framework, env) ==
  IF framework = "java"
  THEN GenerateJavaApiTest(rag, generated, test_desc, env)
  ELSE IF framework = "python"
  THEN GeneratePythonApiTest(generated, test_desc)
  ELSE Outcome(NoExc, "error", "Unsupported framework", generated)

\* TestingAgent.generate_api_test_from_curl
GenerateApiTestFromCurl(rag, generated, curl_command, framework, env) ==
  LET curl_data == ParseCurl(curl_command, env.decode)
      described == GenerateTestDescription(curl_data)
  IN  IF ~curl_data.valid
      THEN Outcome(NoExc, "error",
                   IF "error" \in DOMAIN curl_data THEN curl_data.error
                   ELSE "Invalid cURL command",
                   generated)
      ELSE IF described.exc # NoExc
      THEN Outcome(described.exc, "none", "", generated)
      ELSE Dispatch(rag, generated, described.desc, framework, env)

\* ------------------------------------------------------------------ inputs

PathPdf == <<"s">> \o ExtPdf

PathJava == <<"T">> \o ExtJava

PathPy == <<"m">> \o ExtPy

PathTxt == <<"n", ".", "t", "x", "t">>

\* A path that ends in the letters of an extension without the dot.
PathBare == <<"p", "d", "f">>

\* A path with two extensions, the last one a source-code extension.
PathPdfPy == <<"s">> \o ExtPdf \o ExtPy

\* What the file system and the PDF tools hold for one path: raises says that
\* opening the file (or reading the PDF) raises, content is the text of a code
\* or text file, pages the directly extracted text of each PDF page,
\* render_raises says that rasterising raises, images the rendered pages, each
\* with the text OCR recognises on it or the fact that OCR raises on it.
File(path, raises, content, pages, render_raises, images) ==
  [path |-> path, raises |-> raises, content |-> content, pages |-> pages,
   render_raises |-> render_raises, images |-> images]

\* n rendered pages, page i carrying the text <<i>>, OCR failing on those of F.
Images(n, F) == [i \in 1..n |-> [text |-> <<i>>, fails |-> i \in F]]

\* The files of the pipeline specifications: a Java file, a Python file whose
\* text has surrounding whitespace, a text file that cannot be opened, a PDF
\* with text on its second page, a scanned PDF (no direct text; OCR reads page
\* 1 and fails on page 2) and a scanned PDF on which OCR recognises nothing.
FileJava == File(PathJava, FALSE, <<1, 0, 2>>, <<>>, FALSE, <<>>)

FilePy == File(PathPy, FALSE, <<0, 3, 0>>, <<>>, FALSE, <<>>)

FileGone == File(PathTxt, TRUE, <<>>, <<>>, FALSE, <<>>)

FileDoc == File(PathPdf, FALSE, <<>>, << <<0>>, <<4, 0, 5>> >>, FALSE, <<>>)

FileScan == File(PathPdf, FALSE, <<>>, << <<0>> >>, FALSE, Images(2, {2}))

FileBlankScan == File(PathPdf, FALSE, <<>>, <<>>, FALSE, <<>>)

\* A PDF of six pages of text: an index of more chunks than a search returns.
FileBook ==
  File(PathPdf, FALSE, <<>>,
       << <<1>>, <<2>>, <<3>>, <<1, 2>>, <<1, 3>>, <<2, 3>> >>, FALSE, <<>>)

MainFiles == {FileJava, FilePy, FileGone, FileDoc, FileScan, FileBlankScan}

\* Every batch of at most MaxBatch files.
Batches == UNION {[1..n -> MainFiles] : n \in 0..MaxBatch}

\* The batches of the pipeline specifications: no file, a file that cannot be
\* opened, one source file, a batch whose first file fails, and a scanned PDF
\* that yields no text.
PipelineBatches ==
  { <<>>, <<FileGone>>, <<FileJava>>, <<FileGone, FileScan>>, <<FileBlankScan>> }

\* The batches of the retrieval specification: indexes of one, two and six
\* chunks, fewer and more than a search returns.
RetrievalBatches == { <<FileJava>>, <<FileJava, FilePy>>, <<FileBook>> }

\* What the embedding model and the chain constructors do during one build.
BuildEnvs ==
  {[embed_exc |-> "none", setup_exc |-> "none"]}
    \cup {[embed_exc |-> t, setup_exc |-> "none"] : t \in CollaboratorExcTypes}
    \cup {[embed_exc |-> "none", setup_exc |-> t] : t \in CollaboratorExcTypes}

\* The code strings the generation backend answers with.
Answers == { <<"/**", "class">>, <<"class">> }

\* What the embedding model and the generation backend do during one
\* generating call.
QueryEnvs ==
  {[examples_exc |-> "none", search_exc |-> "none", llm_exc |-> "none",
    answer |-> a] : a \in Answers}
    \cup {[examples_exc |-> "none", search_exc |-> "none", llm_exc |-> t,
           answer |-> <<>>] : t \in CollaboratorExcTypes}
    \cup {[examples_exc |-> "none", search_exc |-> t, llm_exc |-> "none",
           answer |-> <<>>] : t \in CollaboratorExcTypes}
    \cup {[examples_exc |-> t, search_exc |-> "none", llm_exc |-> "none",
           answer |-> <<>>] : t \in CollaboratorExcTypes}

\* The questions, descriptions and prompts callers pass.
Questions == { <<1>>, <<3, 0>> }

MethodDescs == { <<>>, << [name |-> <<4>>, desc |-> <<1>>] >> }

\* ------------------------------------------------------------------- state

VARIABLES
  vector_store,     \* self.vector_store: None or [build, chunks]
  retrieval_chain,  \* self.retrieval_chain: None or [retriever, k]
  chunk_size,       \* self.chunk_size
  chunk_overlap,    \* self.chunk_overlap
  builds,           \* load_and_process_documents calls started so far
  last_ok,          \* the index of the latest load call that returned
  last,             \* the latest completed call as its caller saw it
  bpc,              \* interleaved build: "idle", or "built" (line 165 done)
  b_call,           \* interleaved build: the call's inputs and loaded units
  rpc,              \* interleaved reader: "idle", or "searched" (line 180 done)
  r_call,           \* interleaved reader: the call's inputs and examples
  ld_file,          \* loader specification: the file handed to the loader
  ld_pc,            \* loader specification: "ready" or "done"
  ld_result,        \* loader specification: what the loader returned
  jd_code,          \* marker repair specification: the generated code
  jd_pc,            \* marker repair specification: "ready", "done", "twice"
  jd_result,        \* marker repair specification: the code returned
  fmt_code,         \* formatting specification: the generated text
  fmt_pc,           \* formatting specification: "ready" or "done"
  fmt_result,       \* formatting specification: the text returned
  curl_command,     \* parser specification: the command handed to parse_curl
  curl_decode,      \* parser specification: what json.loads does with a body
  curl_pc,          \* parser specification: "ready" or "done"
  curl_result,      \* parser specification: the dict returned
  ag_sources,       \* handlers: the files of sources_dir, as glob lists them
  ag_generated,     \* handlers: the files of sources_dir/generated
  ag_last           \* handlers: the latest handler call and its outcome

vars == <<vector_store, retrieval_chain, chunk_size, chunk_overlap, builds,
          last_ok, last, bpc, b_call, rpc, r_call, ld_file, ld_pc, ld_result,
          jd_code, jd_pc, jd_result, fmt_code, fmt_pc, fmt_result,
          curl_command, curl_decode, curl_pc, curl_result,
          ag_sources, ag_generated, ag_last>>

pipeline_vars == <<vector_store, retrieval_chain, chunk_size, chunk_overlap,
                   builds, last_ok, last>>

conc_vars == <<bpc, b_call, rpc, r_call>>

loader_vars == <<ld_file, ld_pc, ld_result>>

javadoc_vars == <<jd_code, jd_pc, jd_result>>

format_vars == <<fmt_code, fmt_pc, fmt_result>>

curl_vars == <<curl_command, curl_decode, curl_pc, curl_result>>

agent_vars == <<ag_sources, ag_generated, ag_last>>

\* The variables of the specifications of one unit alone (loader, marker
\* repair, formatting, parser) and of the handlers of TestingAgent, which the
\* calls on the pipeline leave alone.
unit_vars == <<loader_vars, javadoc_vars, format_vars, curl_vars, agent_vars>>

\* The fields of the RAGService object.
Self ==
  [vector_store |-> vector_store, retrieval_chain |-> retrieval_chain,
   chunk_size |-> chunk_size, chunk_overlap |-> chunk_overlap]

\* The record of a completed call; fields a call does not have are empty.
\* question is the input the retrieval chain was invoked with, search_query
\* the query of the similarity search for examples.
Call(op, exc) ==
  [op |-> op, exc |-> exc, batch |-> <<>>, all_docs |-> <<>>, skipped |-> <<>>,
   answer |-> <<>>, context |-> <<>>, context_build |-> 0, examples |-> <<>>,
   examples_build |-> 0, llm_calls |-> 0, question |-> <<>>,
   search_query |-> <<>>]

NoBuildCall == [batch |-> <<>>, all_docs |-> <<>>, skipped |-> <<>>,
                env |-> [embed_exc |-> "none", setup_exc |-> "none"]]

NoReadCall == [class_desc |-> <<>>, method_descs |-> <<>>,
               found |-> [exc |-> NoExc, docs |-> <<>>, build |-> 0]]

NoLoaderResult == [raised |-> FALSE, docs |-> <<>>, ocr_runs |-> 0,
                   ocr_pages |-> 0]

\* RAGService.__init__(chunk_size = size, chunk_overlap = overlap): the values
\* are stored as given.
InitConfigured(size, overlap) ==
  /\ vector_store = None
  /\ retrieval_chain = None
  /\ chunk_size = size
  /\ chunk_overlap = overlap
  /\ builds = 0
  /\ last_ok = [build |-> 0, chunks |-> <<>>]
  /\ last = Call("none", NoExc)
  /\ bpc = "idle"
  /\ b_call = NoBuildCall
  /\ rpc = "idle"
  /\ r_call = NoReadCall

\* RAGService.__init__ with the default chunk_size and chunk_overlap.
InitPipeline == InitConfigured(ChunkSizeDefault, ChunkOverlapDefault)

\* No _validate_javadoc call under observation.
JavadocIdle == jd_code = <<>> /\ jd_pc = "ready" /\ jd_result = <<>>

\* No _fix_code_formatting call under observation.
FormatIdle == fmt_code = <<>> /\ fmt_pc = "ready" /\ fmt_result = <<>>

\* The dict parse_curl starts from (lines 15-22), for a command without -X.
NoCurlResult ==
  [method |-> <<"G", "E", "T">>, url |-> <<>>, headers |-> EmptyDict,
   data |-> NoData, params |-> EmptyDict, valid |-> FALSE]

\* No handler call so far.
NoAgentCall ==
  [op |-> "none", framework |-> "", curl_command |-> <<>>, decode |-> "value",
   out |-> Outcome(NoExc, "none", "", EmptyDict)]

\* TestingAgent.__init__ on a sources directory with no file and no generated
\* directory.
AgentIdle ==
  /\ ag_sources = <<>>
  /\ ag_generated = EmptyDict
  /\ ag_last = NoAgentCall

\* No parse_curl call under observation.
CurlIdle ==
  /\ curl_command = <<>>
  /\ curl_decode = "value"
  /\ curl_pc = "ready"
  /\ curl_result = NoCurlResult

Init ==
  /\ InitPipeline
  /\ ld_file = FileJava
  /\ ld_pc = "ready"
  /\ ld_result = NoLoaderResult
  /\ JavadocIdle
  /\ FormatIdle
  /\ CurlIdle
  /\ AgentIdle

\* --------------------------------------------- actions: sequential calls

\* One load_and_process_documents call, from entry to return or raise, on a
\* batch of `batches`, while fewer than `limit` calls were made.
LoadFrom(batches, limit) ==
  /\ builds < limit
  /\ \E batch \in batches, env \in BuildEnvs :
       \E r \in {LoadAndProcessDocuments(Self, batch, builds + 1, env)} :
       /\ vector_store' = r.self.vector_store
       /\ retrieval_chain' = r.self.retrieval_chain
       /\ chunk_size' = r.self.chunk_size
       /\ chunk_overlap' = r.self.chunk_overlap
       /\ builds' = builds + 1
       /\ last_ok' = IF r.exc = NoExc THEN r.self.vector_store ELSE last_ok
       /\ last' = [Call("load_and_process_documents", r.exc) EXCEPT
                     !.batch = batch, !.all_docs = r.all_docs,
                     !.skipped = r.skipped]
  /\ UNCHANGED <<conc_vars, unit_vars>>

\* What a generating call of RAGService leaves for its caller.
Generated(op, r) ==
  [Call(op, r.exc) EXCEPT !.answer = r.answer, !.context = r.context,
                          !.context_build = r.build,
                          !.llm_calls = r.llm_calls,
                          !.question = r.question]

\* A query call whose except clause drops the chain before it re-raises.
QueryCallDropChain ==
  /\ \E question \in Questions, env \in QueryEnvs :
       /\ env.examples_exc = "none"
       /\ \E r \in {Query(Self, question, env)} :
            /\ last' = Generated("query", r)
            /\ retrieval_chain' = IF r.exc \in {NoExc, ExcNotInitialized}
                                  THEN retrieval_chain ELSE None
  /\ UNCHANGED <<vector_store, chunk_size, chunk_overlap,
                 builds, last_ok, conc_vars, unit_vars>>

\* One query call.
QueryCall ==
  /\ \E question \in Questions, env \in QueryEnvs :
       /\ env.examples_exc = "none"
       /\ last' = Generated("query", Query(Self, question, env))
  /\ UNCHANGED <<vector_store, retrieval_chain, chunk_size, chunk_overlap,
                 builds, last_ok, conc_vars, unit_vars>>

\* One generate_java_test call.
GenerateJavaTestCall ==
  /\ \E context \in {<<>>}, prompt \in Questions, env \in QueryEnvs :
       /\ env.examples_exc = "none"
       /\ last' = Generated("generate_java_test",
                            GenerateJavaTest(Self, context, prompt, env))
  /\ UNCHANGED <<vector_store, retrieval_chain, chunk_size, chunk_overlap,
                 builds, last_ok, conc_vars, unit_vars>>

\* One generate_java_test_with_javadoc call.
GenerateJavaTestWithJavadocCall ==
  /\ \E class_desc \in Questions, method_descs \in MethodDescs,
        env \in QueryEnvs :
       /\ env.examples_exc = "none"
       /\ last' = Generated("generate_java_test_with_javadoc",
                            GenerateJavaTestWithJavadoc(
                              Self, <<>>, class_desc,
                              MethodsDesc(method_descs), env))
  /\ UNCHANGED <<vector_store, retrieval_chain, chunk_size, chunk_overlap,
                 builds, last_ok, conc_vars, unit_vars>>

\* What generate_test_with_docs leaves for its caller, and (examples, context)
\* what it read on the way.
Documented(r) ==
  [Call("generate_test_with_docs", r.exc) EXCEPT
     !.answer = r.code, !.context = r.context,
     !.context_build = r.context_build, !.examples = r.examples,
     !.examples_build = r.examples_build, !.llm_calls = r.llm_calls,
     !.question = r.question, !.search_query = r.search_query]

\* One TestingAgent.generate_test_with_docs call.
GenerateTestWithDocsCall ==
  /\ \E class_desc \in Questions, method_descs \in MethodDescs,
        env \in QueryEnvs :
       last' = Documented(GenerateTestWithDocs(Self, class_desc, method_descs,
                                               ExamplesCountDefault, env))
  /\ UNCHANGED <<vector_store, retrieval_chain, chunk_size, chunk_overlap,
                 builds, last_ok, conc_vars, unit_vars>>

Load == LoadFrom(PipelineBatches, MaxBuilds)

BatchLoad == LoadFrom(Batches, MaxBatchBuilds)

Next ==
  \/ Load
  \/ QueryCall
  \/ GenerateJavaTestCall
  \/ GenerateJavaTestWithJavadocCall
  \/ GenerateTestWithDocsCall

\* Single-threaded, call-and-return use of one pipeline instance.
Spec == Init /\ [][Next]_vars

NextBatch == BatchLoad

RetrievalLoad == LoadFrom(RetrievalBatches, MaxRetrievalBuilds)

NextRetrieval ==
  \/ RetrievalLoad
  \/ QueryCall
  \/ GenerateJavaTestCall
  \/ GenerateJavaTestWithJavadocCall
  \/ GenerateTestWithDocsCall

\* Retrieval and generation on indexes of one, two and six chunks.
SpecRetrieval == Init /\ [][NextRetrieval]_vars

\* Batch loading alone, over every batch of at most MaxBatch files.
SpecBatch == Init /\ [][NextBatch]_vars

\* ------------------------------------------- actions: interleaved calls
\* One thread runs load_and_process_documents and another one a reading call
\* on the same RAGService; the code takes no lock, so the calls interleave between
\* the two assignments of a build and between the two reads of
\* generate_test_with_docs.

\* load_and_process_documents up to line 168: the files are loaded, and, unless
\* the call raises, the new index is assigned to self.vector_store.
BuildStart ==
  /\ bpc = "idle"
  /\ builds < MaxBuilds
  /\ \E batch \in PipelineBatches, env \in BuildEnvs :
       \E loaded \in {LoadLoop(batch, 1, <<>>, <<>>)} :
       \E r \in {IF loaded.all_docs = <<>>
                 THEN [self |-> Self, exc |-> ExcNoDocuments]
                 ELSE BuildIndex(Self, loaded.all_docs, builds + 1, env)} :
         /\ vector_store' = r.self.vector_store
         /\ builds' = builds + 1
         /\ b_call' = [batch |-> batch, all_docs |-> loaded.all_docs,
                       skipped |-> loaded.skipped, env |-> env]
         /\ IF r.exc = NoExc
            THEN /\ bpc' = "built"
                 /\ last' = last
            ELSE /\ bpc' = "idle"
                 /\ last' = [Call("load_and_process_documents", r.exc) EXCEPT
                               !.batch = batch, !.all_docs = loaded.all_docs,
                               !.skipped = loaded.skipped]
  /\ UNCHANGED <<retrieval_chain, chunk_size, chunk_overlap, last_ok, rpc,
                 r_call, unit_vars>>

\* Line 171 and the return: _setup_retrieval_chain binds the retriever to
\* self.vector_store and assigns self.retrieval_chain.
BuildFinish ==
  /\ bpc = "built"
  /\ \E r \in {SetupRetrievalChain(Self, b_call.env)} :
       /\ retrieval_chain' = r.self.retrieval_chain
       /\ last_ok' = IF r.exc = NoExc THEN vector_store ELSE last_ok
       /\ last' = [Call("load_and_process_documents", r.exc) EXCEPT
                     !.batch = b_call.batch, !.all_docs = b_call.all_docs,
                     !.skipped = b_call.skipped]
  /\ bpc' = "idle"
  /\ UNCHANGED <<vector_store, chunk_size, chunk_overlap, builds, b_call, rpc,
                 r_call, unit_vars>>

\* generate_test_with_docs, lines 180-183: the similarity search.
ReadSearch ==
  /\ rpc = "idle"
  /\ \E class_desc \in Questions, method_descs \in MethodDescs,
        env \in QueryEnvs :
       \E s \in {SearchExamples(Self, class_desc, ExamplesCountDefault, env)} :
         IF s.exc # NoExc
         THEN /\ last' = [Call("generate_test_with_docs", s.exc) EXCEPT
                            !.examples_build = s.build,
                            !.search_query = class_desc]
              /\ UNCHANGED <<rpc, r_call>>
         ELSE /\ rpc' = "searched"
              /\ r_call' = [class_desc |-> class_desc,
                            method_descs |-> method_descs, found |-> s]
              /\ last' = last
  /\ UNCHANGED <<vector_store, retrieval_chain, chunk_size, chunk_overlap,
                 builds, last_ok, bpc, b_call, unit_vars>>

\* generate_test_with_docs, lines 186-198: the generation and the result.
ReadGenerate ==
  /\ rpc = "searched"
  /\ \E env \in QueryEnvs :
       /\ env.examples_exc = "none"
       /\ last' = Documented(GenerateFromExamples(
                    Self, r_call.found, r_call.class_desc,
                    r_call.method_descs, env))
  /\ rpc' = "idle"
  /\ r_call' = NoReadCall
  /\ UNCHANGED <<vector_store, retrieval_chain, chunk_size, chunk_overlap,
                 builds, last_ok, bpc, b_call, unit_vars>>

\* A query call of the reading thread: one read of self.retrieval_chain.
ReadQuery ==
  /\ rpc = "idle"
  /\ \E question \in Questions, env \in QueryEnvs :
       /\ env.examples_exc = "none"
       /\ last' = Generated("query", Query(Self, question, env))
  /\ UNCHANGED <<vector_store, retrieval_chain, chunk_size, chunk_overlap,
                 builds, last_ok, conc_vars, unit_vars>>

NextConc ==
  \/ BuildStart
  \/ BuildFinish
  \/ ReadSearch
  \/ ReadGenerate
  \/ ReadQuery

\* A building thread and a reading thread sharing one pipeline instance.
SpecConc == Init /\ [][NextConc]_vars

\* --------------------------------------------- actions: configured builds

\* The texts of the units a configured build chunks: every text of at most
\* MaxText characters over the space and two other characters.
ChunkTexts == UNION {[1..n -> 0..2] : n \in 0..MaxText}

\* The batches of a configured build: one text file, or a text file of two
\* words followed by a source file.
ChunkBatches ==
  {<< File(PathTxt, FALSE, t, <<>>, FALSE, <<>>) >> : t \in ChunkTexts}
    \cup {<< File(PathTxt, FALSE, <<1, 0, 2>>, <<>>, FALSE, <<>>), FileJava >>}

\* The chunk_size and chunk_overlap arguments of the constructor, the overlap
\* below, equal to and above the size.
ChunkSizes == 1..MaxChunkSize

ChunkOverlaps == 0..(MaxChunkSize + 1)

InitChunk ==
  /\ \E size \in ChunkSizes, overlap \in ChunkOverlaps :
       InitConfigured(size, overlap)
  /\ ld_file = FileJava
  /\ ld_pc = "ready"
  /\ ld_result = NoLoaderResult
  /\ JavadocIdle
  /\ FormatIdle
  /\ CurlIdle
  /\ AgentIdle

ChunkLoad == LoadFrom(ChunkBatches, MaxChunkBuilds)

NextChunk == ChunkLoad

\* Builds of pipelines constructed with every chunk_size and chunk_overlap of
\* ChunkSizes and ChunkOverlaps.
SpecChunk == InitChunk /\ [][NextChunk]_vars

\* ------------------------------------------------- actions: loader alone

\* The direct page texts, and the texts of code and text files, the loader
\* specification draws.
LoaderTexts == { <<>>, <<0>>, <<0, 1>> }

LoaderPageSeqs == UNION {[1..n -> LoaderTexts] : n \in 0..MaxPages}

\* Rendered page counts: a few pages, and counts around the cap.
LoaderPageCounts ==
  (0..MaxPages) \cup ((OcrMaxPages - 1)..(OcrMaxPages + MaxOver))

\* The pages OCR may fail on: the first two, the last one below the cap, the
\* cap and the first one beyond it.
LoaderFailPages(n) ==
  {1, 2, OcrMaxPages - 1, OcrMaxPages, OcrMaxPages + 1} \cap (1..n)

LoaderImageSeqs ==
  UNION {{Images(n, F) : F \in SUBSET LoaderFailPages(n)} : n \in LoaderPageCounts}

LoaderFiles ==
  {File(PathPdf, FALSE, <<>>, pages, FALSE, images) :
     pages \in LoaderPageSeqs, images \in LoaderImageSeqs}
    \cup {File(PathPdf, TRUE, <<>>, <<>>, FALSE, <<>>),
          File(PathPdf, TRUE, <<>>, <<>>, FALSE, Images(1, {})),
          File(PathPdf, FALSE, <<>>, <<>>, TRUE, <<>>),
          File(PathPdf, FALSE, <<>>, << <<0>> >>, TRUE, Images(1, {}))}
    \cup {File(path, raises, content, <<>>, FALSE, <<>>) :
            path \in {PathJava, PathPy, PathTxt, PathBare, PathPdfPy},
            raises \in BOOLEAN,
            content \in LoaderTexts}

InitLoader ==
  /\ InitPipeline
  /\ ld_file \in LoaderFiles
  /\ ld_pc = "ready"
  /\ ld_result = NoLoaderResult
  /\ JavadocIdle
  /\ FormatIdle
  /\ CurlIdle
  /\ AgentIdle

\* The loader applied to one file: the body of the loop of
\* load_and_process_documents for that file.
LoaderCall ==
  /\ ld_pc = "ready"
  /\ ld_result' = LoadFile(ld_file)
  /\ ld_pc' = "done"
  /\ UNCHANGED <<pipeline_vars, conc_vars, ld_file, javadoc_vars, format_vars,
                 curl_vars, agent_vars>>

NextLoader == LoaderCall

\* The document loader alone, over every file of LoaderFiles.
SpecLoader == InitLoader /\ [][NextLoader]_vars

\* ------------------------------------------- actions: marker repair alone

\* The tokens of a generated code string.
CodeTokens == {DocOpen, "@author", "@version", "class"}

\* Every code string of one to MaxCode tokens.
Codes == UNION {[1..n -> CodeTokens] : n \in 1..MaxCode}

InitJavadoc ==
  /\ InitPipeline
  /\ ld_file = FileJava
  /\ ld_pc = "ready"
  /\ ld_result = NoLoaderResult
  /\ jd_code \in Codes
  /\ jd_pc = "ready"
  /\ jd_result = <<>>
  /\ FormatIdle
  /\ CurlIdle
  /\ AgentIdle

\* One TestingAgent._validate_javadoc(code) call.
ValidateJavadocCall ==
  /\ jd_pc = "ready"
  /\ jd_result' = ValidateJavadoc(jd_code)
  /\ jd_pc' = "done"
  /\ UNCHANGED <<pipeline_vars, conc_vars, loader_vars, jd_code, format_vars,
                 curl_vars, agent_vars>>

\* A second TestingAgent._validate_javadoc call, on the code the first one
\* returned.
ValidateJavadocAgainCall ==
  /\ jd_pc = "done"
  /\ jd_code' = jd_result
  /\ jd_result' = ValidateJavadoc(jd_result)
  /\ jd_pc' = "twice"
  /\ UNCHANGED <<pipeline_vars, conc_vars, loader_vars, format_vars, curl_vars,
                 agent_vars>>

NextJavadoc ==
  \/ ValidateJavadocCall
  \/ ValidateJavadocAgainCall

\* The marker repair alone, over every code string of Codes.
SpecJavadoc == InitJavadoc /\ [][NextJavadoc]_vars

\* ----------------------------------------------- actions: formatting alone

\* The characters of a generated text: a backtick, a line feed, a blank and a
\* character of code.
FormatChars == {Backtick, Newline, 0, 1}

\* Every generated text of at most MaxFormat characters.
FormatCodes == UNION {[1..n -> FormatChars] : n \in 0..MaxFormat}

InitFormat ==
  /\ InitPipeline
  /\ ld_file = FileJava
  /\ ld_pc = "ready"
  /\ ld_result = NoLoaderResult
  /\ JavadocIdle
  /\ fmt_code \in FormatCodes
  /\ fmt_pc = "ready"
  /\ fmt_result = <<>>
  /\ CurlIdle
  /\ AgentIdle

\* One TestingAgent._fix_code_formatting(code) call.
FixCodeFormattingCall ==
  /\ fmt_pc = "ready"
  /\ fmt_result' = FixCodeFormatting(fmt_code)
  /\ fmt_pc' = "done"
  /\ UNCHANGED <<pipeline_vars, conc_vars, loader_vars, javadoc_vars, fmt_code,
                 curl_vars, agent_vars>>

NextFormat == FixCodeFormattingCall

\* The formatting step alone, over every generated text of FormatCodes.
SpecFormat == InitFormat /\ [][NextFormat]_vars

\* --------------------------------------------------- actions: parser alone

\* The words of a command: curl, the options -X, -H and -d, a quoted URL, a
\* quoted URL with an unclosed bracket, a URL without quotes that carries a
\* query, and a quoted word without a colon.
CurlWords ==
  {WordCurl, Word(FALSE, FlagX), Word(FALSE, FlagH), Word(FALSE, FlagD),
   Word(TRUE, <<"h", ":", "/", "/", "a">>),
   Word(TRUE, <<"h", ":", "/", "/", "[">>),
   Word(FALSE, <<"h", ":", "/", "/", "a", "?", "q", "=", "b">>),
   Word(TRUE, <<"A", "b">>)}

\* Every command of at most MaxCurl words.
CurlCommands == UNION {[1..n -> CurlWords] : n \in 0..MaxCurl}

InitCurl ==
  /\ InitPipeline
  /\ ld_file = FileJava
  /\ ld_pc = "ready"
  /\ ld_result = NoLoaderResult
  /\ JavadocIdle
  /\ FormatIdle
  /\ curl_command \in CurlCommands
  /\ curl_decode \in JsonOutcomes
  /\ curl_pc = "ready"
  /\ curl_result = NoCurlResult
  /\ AgentIdle

\* One CurlParser.parse_curl(curl_command) call.
ParseCurlCall ==
  /\ curl_pc = "ready"
  /\ curl_result' = ParseCurl(curl_command, curl_decode)
  /\ curl_pc' = "done"
  /\ UNCHANGED <<pipeline_vars, conc_vars, loader_vars, javadoc_vars,
                 format_vars, curl_command, curl_decode, agent_vars>>

NextCurl == ParseCurlCall

\* The cURL parser alone, over every command of CurlCommands.
SpecCurl == InitCurl /\ [][NextCurl]_vars

\* ------------------------------------------- actions: TestingAgent handlers

\* A file of sources_dir.
SourceFile(file_name, content) == [file_name |-> file_name, content |-> content]

\* Four example tests and a Java file that is no example.
SourceFiles ==
  {SourceFile(<<"A">> \o ExampleSuffix, <<1>>),
   SourceFile(<<"B">> \o ExampleSuffix, <<2>>),
   SourceFile(<<"C">> \o ExampleSuffix, <<3>>),
   SourceFile(<<"D">> \o ExampleSuffix, <<4>>),
   SourceFile(<<"A", ".", "j", "a", "v", "a">>, <<5>>)}

\* Every listing of at most MaxExamples different files.
SourcesDirs ==
  {d \in UNION {[1..n -> SourceFiles] : n \in 0..MaxExamples} :
     \A i, j \in 1..Len(d) : i # j => d[i] # d[j]}

\* The answers of the generation backend: a class between fences, and code
\* that names no class.
AgentAnswers ==
  {Fence \o <<Newline, ClassWord, 0, 1, Newline>> \o Fence, <<2>>}

\* What the backend, the file system and json.loads do during one handler
\* call.
AgentEnv(llm_exc, answer, save_exc, decode) ==
  [search_exc |-> "none", llm_exc |-> llm_exc, answer |-> answer,
   save_exc |-> save_exc, decode |-> decode]

AgentEnvs ==
  {AgentEnv("none", a, "none", "value") : a \in AgentAnswers}
    \cup {AgentEnv(t, <<>>, "none", "value") : t \in CollaboratorExcTypes}
    \cup {AgentEnv("none", <<2>>, "OSError", "value"),
          AgentEnv("none", <<2>>, "none", "RecursionError")}

Requirements == { <<1>> }

\* The commands handed to generate_api_test_from_curl: a URL alone, a URL
\* with a header, a URL with a body, no URL, a header without a colon, and a
\* URL urlparse rejects.
AgentCommands ==
  {<<WordCurl, Word(TRUE, <<"h", ":", "/", "/", "a">>)>>,
   <<WordCurl, Word(TRUE, <<"h", ":", "/", "/", "a">>),
     Word(FALSE, FlagH), Word(TRUE, <<"A", ":", " ", "b">>)>>,
   <<WordCurl, Word(FALSE, <<"h", ":", "/", "/", "a", "?", "q", "=", "b">>),
     Word(FALSE, FlagD), Word(TRUE, <<"A", "b">>)>>,
   <<Word(FALSE, FlagH), Word(TRUE, <<"A", ":", " ", "b">>)>>,
   <<WordCurl, Word(TRUE, <<"h", ":", "/", "/", "a">>),
     Word(FALSE, FlagH), Word(TRUE, <<"A", "b">>)>>,
   <<WordCurl, Word(TRUE, <<"h", ":", "/", "/", "[">>)>>}

Frameworks == {"java", "python", "kotlin"}

\* The record of a handler call.
AgentCall(op, framework, command, env, out) ==
  [op |-> op, framework |-> framework, curl_command |-> command,
   decode |-> env.decode, out |-> out]

\* One TestingAgent.generate_new_test call.
GenerateNewTestCall ==
  /\ \E requirements \in Requirements, env \in AgentEnvs :
       \E r \in {GenerateNewTest(Self, ag_sources, ag_generated, requirements,
                                 env)} :
         /\ ag_generated' = r.generated
         /\ ag_last' = AgentCall("generate_new_test", "", <<>>, env, r)
  /\ UNCHANGED <<pipeline_vars, conc_vars, loader_vars, javadoc_vars,
                 format_vars, curl_vars, ag_sources>>

\* One TestingAgent.generate_api_test_from_curl call.
GenerateApiTestFromCurlCall ==
  /\ \E curl \in AgentCommands, framework \in Frameworks, env \in AgentEnvs :
       \E r \in {GenerateApiTestFromCurl(Self, ag_generated, curl, framework,
                                         env)} :
         /\ ag_generated' = r.generated
         /\ ag_last' = AgentCall("generate_api_test_from_curl", framework,
                                 curl, env, r)
  /\ UNCHANGED <<pipeline_vars, conc_vars, loader_vars, javadoc_vars,
                 format_vars, curl_vars, ag_sources>>

\* The batch the handler specifications index.
AgentBatches == { <<FileJava>> }

AgentLoad == LoadFrom(AgentBatches, MaxAgentBuilds)

InitExamples ==
  /\ InitPipeline
  /\ ld_file = FileJava
  /\ ld_pc = "ready"
  /\ ld_result = NoLoaderResult
  /\ JavadocIdle
  /\ FormatIdle
  /\ CurlIdle
  /\ ag_sources \in SourcesDirs
  /\ ag_generated = EmptyDict
  /\ ag_last = NoAgentCall

NextExamples ==
  \/ AgentLoad
  \/ GenerateNewTestCall

\* generate_new_test on every sources directory of SourcesDirs.
SpecExamples == InitExamples /\ [][NextExamples]_vars

InitAgent ==
  /\ InitPipeline
  /\ ld_file = FileJava
  /\ ld_pc = "ready"
  /\ ld_result = NoLoaderResult
  /\ JavadocIdle
  /\ FormatIdle
  /\ CurlIdle
  /\ ag_sources = << SourceFile(<<"A">> \o ExampleSuffix, <<1>>) >>
  /\ ag_generated = EmptyDict
  /\ ag_last = NoAgentCall

NextAgent ==
  \/ AgentLoad
  \/ GenerateNewTestCall
  \/ GenerateApiTestFromCurlCall

\* The generating handlers of TestingAgent on one pipeline.
SpecAgent == InitAgent /\ [][NextAgent]_vars

\* ------------------------------------------------------------------ claims

\* The two states of the pipeline.
Uninitialized == vector_store = None /\ retrieval_chain = None

Indexed == vector_store # None /\ retrieval_chain # None

\* C1. A query call made while no load_and_process_documents call has ever
\* returned fails with the error of query's guard (the ValueError "vector
\* store not initialised", the code's NotReadyError), calls the generation
\* backend zero times and leaves vector_store and retrieval_chain as they were.
C1_QueryBeforeBuild ==
  [][ (last_ok.build = 0 /\ last'.op = "query")
        => /\ last'.exc = ExcNotInitialized
           /\ last'.llm_calls = 0
           /\ last'.answer = <<>>
           /\ vector_store' = vector_store
           /\ retrieval_chain' = retrieval_chain ]_vars

\* C1 witness: a load was attempted and raised, then query raised.
C1_Witness ==
  /\ last.op = "query"
  /\ last.exc = ExcNotInitialized
  /\ builds > 0
  /\ last_ok.build = 0

\* C2 (as claimed). The pipeline is always Uninitialized or Indexed; it leaves
\* Uninitialized only by a load_and_process_documents call that returns; once
\* Indexed it stays Indexed.
C2_TwoStates ==
  [][ /\ Uninitialized' \/ Indexed'
      /\ (Uninitialized /\ ~Uninitialized')
           => (last'.op = "load_and_process_documents" /\ last'.exc = NoExc)
      /\ Indexed => Indexed' ]_vars

\* C3 (as claimed). The index the retrieval chain searches and the index
\* vector_store holds are the same build, the one of the latest load call that
\* returned, and the chunks a generating call used come from that build.
C3_AtomicReplace ==
  /\ retrieval_chain # None
       => (vector_store # None /\ retrieval_chain.retriever = vector_store)
  /\ vector_store # None => vector_store = last_ok
  /\ \A i \in 1..Len(last.context) :
       \E j \in 1..Len(last_ok.chunks) : last.context[i] = last_ok.chunks[j]
  /\ \A i \in 1..Len(last.examples) :
       \E j \in 1..Len(last_ok.chunks) : last.examples[i] = last_ok.chunks[j]

\* Whether the loader returns for a file: it can be opened, and a PDF without
\* direct text can be rasterised.
FileLoads(f) ==
  /\ ~f.raises
  /\ (EndsWith(f.path, ExtPdf)
        /\ (\A i \in 1..Len(f.pages) : \A j \in 1..Len(f.pages[i]) :
              f.pages[i][j] = 0))
       => ~f.render_raises

\* C4. load_and_process_documents raises its "no document loaded" error
\* exactly when no file of the batch loads; a file whose loader raises is
\* logged and skipped, and every unit of the files that load reaches the
\* chunker: when the call returns, each such unit with text is a chunk of the
\* new index.
C4_SkipFailingFiles ==
  last.op = "load_and_process_documents" =>
    /\ (last.exc = ExcNoDocuments)
         <=> (\A i \in 1..Len(last.batch) : ~FileLoads(last.batch[i]))
    /\ (last.all_docs = <<>>) <=> (last.exc = ExcNoDocuments)
    /\ Len(last.skipped)
         = Cardinality({i \in 1..Len(last.batch) : ~FileLoads(last.batch[i])})
    /\ \A i \in 1..Len(last.batch) :
         FileLoads(last.batch[i]) =>
           \A k \in 1..Len(LoadFile(last.batch[i]).docs) :
             LET d == LoadFile(last.batch[i]).docs[k] IN
             /\ \E m \in 1..Len(last.all_docs) : last.all_docs[m] = d
             /\ (last.exc = NoExc /\ ~IsBlank(d.page_content))
                  => \E c \in 1..Len(vector_store.chunks) :
                       /\ vector_store.chunks[c].metadata = d.metadata
                       /\ vector_store.chunks[c].page_content
                            = Strip(d.page_content)

\* C4 witness: the first file of a batch failed and the second one was indexed.
C4_Witness ==
  /\ last.op = "load_and_process_documents"
  /\ last.exc = NoExc
  /\ Len(last.batch) = 2
  /\ ~FileLoads(last.batch[1])
  /\ Len(vector_store.chunks) > 0

\* C5 (as claimed). A generate_test_with_docs call that reached the generation
\* backend took its examples and its generation context from the same build.
C5_NoHalfSwappedRead ==
  (last.op = "generate_test_with_docs" /\ last.llm_calls > 0)
    => last.examples_build = last.context_build

\* The error kind of the specification an exception stands for.
Kind(exc) ==
  CASE exc.site = "load_and_process_documents" -> "IngestionError"
    [] exc.site = "query" -> "NotReadyError"
    [] exc.site = "embedding" -> "EmbeddingError"
    [] exc.site = "llm" -> "GenerationError"
    [] OTHER -> "other"

\* C6 (as claimed). Two errors of different kinds that a caller receives from
\* consecutive calls differ in their exception type.
C6_DistinguishableErrors ==
  [][ (/\ Kind(last.exc) # "other"
       /\ Kind(last'.exc) # "other"
       /\ Kind(last.exc) # Kind(last'.exc))
        => last.exc.type # last'.exc.type ]_vars

\* A _load_pdf call whose direct extraction did not raise has returned or
\* raised.
PdfCall ==
  /\ ld_pc = "done"
  /\ EndsWith(ld_file.path, ExtPdf)
  /\ ~ld_file.raises

\* C7. _load_pdf runs the OCR fallback once when no page has a non-whitespace
\* character (no page at all included) and not at all otherwise, and then
\* returns the directly extracted pages unchanged.
C7_OcrFallbackOnce ==
  PdfCall =>
    IF \E i \in 1..Len(ld_file.pages) :
         \E j \in 1..Len(ld_file.pages[i]) : ld_file.pages[i][j] # 0
    THEN /\ ld_result.ocr_runs = 0
         /\ ~ld_result.raised
         /\ Len(ld_result.docs) = Len(ld_file.pages)
         /\ \A i \in 1..Len(ld_file.pages) :
              ld_result.docs[i].page_content = ld_file.pages[i]
    ELSE ld_result.ocr_runs = 1

\* C7 witness: pages that hold only whitespace triggered the fallback.
C7_Witness ==
  /\ PdfCall
  /\ Len(ld_file.pages) > 0
  /\ \E i \in 1..Len(ld_file.pages) : Len(ld_file.pages[i]) > 0
  /\ ld_result.ocr_runs = 1

\* The OCR fallback ran on a PDF that could be rasterised.
OcrCall == PdfCall /\ ld_result.ocr_runs = 1 /\ ~ld_file.render_raises

\* The pages the fallback may recognise: 1..min(n, max_pages).
CappedPages == 1..(IF Len(ld_file.images) < OcrMaxPages
                   THEN Len(ld_file.images) ELSE OcrMaxPages)

\* C8. The fallback recognises pages 1..min(n, 87) and no other: it raises no
\* error, no text of a page beyond the cap is in the result, and when every
\* page is recognised the result is the text of pages 1..min(n, 87) in order
\* (page i carries the text <<i>>).
C8_OcrPageCap ==
  OcrCall =>
    LET text == ld_result.docs[1].page_content IN
    /\ ~ld_result.raised
    /\ Len(ld_result.docs) = 1
    /\ ld_result.ocr_pages = Cardinality(CappedPages)
    /\ ld_result.ocr_pages <= OcrMaxPages
    /\ \A k \in 1..Len(text) : text[k] \in CappedPages
    /\ (\A i \in CappedPages : ~ld_file.images[i].fails)
         => text = [i \in CappedPages |-> i]

\* C8 witness: a page beyond the cap was readable and was dropped.
C8_Witness ==
  /\ OcrCall
  /\ Len(ld_file.images) > OcrMaxPages
  /\ ~ld_file.images[Len(ld_file.images)].fails
  /\ Len(ld_result.docs[1].page_content) = OcrMaxPages

\* C9. For every set of pages on which recognition fails, the result is the
\* text of the recognised pages, each once, in page order; the failing pages
\* add nothing and the pages after them are still recognised.
C9_OcrPageFailure ==
  OcrCall =>
    LET text == ld_result.docs[1].page_content
        ok == {i \in CappedPages : ~ld_file.images[i].fails}
    IN  /\ ~ld_result.raised
        /\ Len(text) = Cardinality(ok)
        /\ {text[k] : k \in 1..Len(text)} = ok
        /\ \A k \in 1..(Len(text) - 1) : text[k] < text[k + 1]

\* C9 witness: recognition failed on page 1 and page 2 is in the result.
C9_Witness ==
  /\ OcrCall
  /\ Len(ld_file.images) >= 2
  /\ ld_file.images[1].fails
  /\ ~ld_file.images[2].fails
  /\ \E k \in 1..Len(ld_result.docs[1].page_content) :
       ld_result.docs[1].page_content[k] = 2

\* C10 (as claimed). Every Text Unit the loader returns carries the path of
\* its file under "source" in its metadata.
C10_SourceInMetadata ==
  (ld_pc = "done" /\ ~ld_result.raised) =>
    \A i \in 1..Len(ld_result.docs) :
      /\ "source" \in DOMAIN ld_result.docs[i].metadata
      /\ ld_result.docs[i].metadata.source = ld_file.path

\* C11. The dispatch is by the path's suffix, exclusive and total: a path
\* ending in .pdf is loaded by _load_pdf alone; a path ending in .java or .py
\* gives, when the file can be read, exactly one unit holding the file's text,
\* tagged with the path and with the language of the extension; every other
\* path gives exactly one unit holding the file's text, tagged with the path
\* only; a file that cannot be read makes the loader raise.
C11_DispatchByType ==
  ld_pc = "done" =>
    IF EndsWith(ld_file.path, ExtPdf)
    THEN /\ ld_result = LoadPdf(ld_file)
         /\ \A i \in 1..Len(ld_result.docs) :
              /\ "language" \notin DOMAIN ld_result.docs[i].metadata
              /\ DOMAIN ld_result.docs[i].metadata # {"source"}
    ELSE /\ ld_result.ocr_runs = 0
         /\ ld_result.raised <=> ld_file.raises
         /\ ~ld_result.raised =>
              /\ Len(ld_result.docs) = 1
              /\ ld_result.docs[1].page_content = ld_file.content
              /\ "source" \in DOMAIN ld_result.docs[1].metadata
              /\ ld_result.docs[1].metadata.source = ld_file.path
              /\ IF EndsWith(ld_file.path, ExtJava)
                 THEN /\ "language" \in DOMAIN ld_result.docs[1].metadata
                      /\ ld_result.docs[1].metadata.language = "java"
                 ELSE IF EndsWith(ld_file.path, ExtPy)
                 THEN /\ "language" \in DOMAIN ld_result.docs[1].metadata
                      /\ ld_result.docs[1].metadata.language = "python"
                 ELSE DOMAIN ld_result.docs[1].metadata = {"source"}

\* C11 witness: a path with a .pdf in it that ends in .py was loaded as Python
\* source.
C11_Witness ==
  /\ ld_pc = "done"
  /\ ld_file.path = PathPdfPy
  /\ ~ld_result.raised
  /\ ld_result.docs[1].metadata.language = "python"

\* A configured build returned: the chunks of its units are in vector_store.
ChunkCall == last.op = "load_and_process_documents" /\ last.exc = NoExc

\* Chunks c and c + 1 of the index come from the same unit.
SameUnit(c) ==
  vector_store.chunks[c].metadata = vector_store.chunks[c + 1].metadata

\* C12 (as claimed). With chunk_overlap < chunk_size, every chunk is at most
\* chunk_size characters long unless it is one token without whitespace, and
\* two consecutive chunks of one unit overlap by exactly chunk_overlap
\* characters: the last chunk_overlap characters of the first are the first
\* chunk_overlap characters of the second.
C12_ChunkLengthAndOverlap ==
  (ChunkCall /\ chunk_overlap < chunk_size) =>
    /\ \A c \in 1..Len(vector_store.chunks) :
         LET text == vector_store.chunks[c].page_content
         IN  Len(text) <= chunk_size \/ \A i \in 1..Len(text) : text[i] # 0
    /\ \A c \in 1..(Len(vector_store.chunks) - 1) :
         LET a == vector_store.chunks[c].page_content
             b == vector_store.chunks[c + 1].page_content
         IN  SameUnit(c) =>
               /\ Len(a) >= chunk_overlap
               /\ Len(b) >= chunk_overlap
               /\ SubSeq(a, Len(a) - chunk_overlap + 1, Len(a))
                    = SubSeq(b, 1, chunk_overlap)

\* C13 (as claimed). A pipeline constructed with chunk_overlap >= chunk_size
\* has its configuration rejected when the chunking step of a build is reached
\* (a clamped overlap would be below chunk_size), and a build that returns has
\* made progress with every chunk: no chunk is empty and a unit of n
\* characters gives at most n chunks.
C13_OverlapRejectedOrClamped ==
  (/\ last.op = "load_and_process_documents"
   /\ last.all_docs # <<>>
   /\ last.exc \in {NoExc, ExcLargerOverlap}) =>
    /\ chunk_overlap >= chunk_size => last.exc = ExcLargerOverlap
    /\ last.exc = NoExc =>
         /\ \A c \in 1..Len(vector_store.chunks) :
              vector_store.chunks[c].page_content # <<>>
         /\ Len(last.all_docs) = 1 =>
              Len(vector_store.chunks) <= Len(last.all_docs[1].page_content)

\* The result of a search holds every chunk of the index that was searched,
\* each once, most similar to the query first.
SearchedAll(result, store, query) ==
  /\ Len(result) = Len(store.chunks)
  /\ \E f \in Permutations(1..Len(result)) :
       \A i \in 1..Len(result) : result[i] = store.chunks[f[i]]
  /\ \A i, j \in 1..Len(result) :
       i < j => Score(query, result[i]) >= Score(query, result[j])

Answered ==
  /\ last.op \in {"query", "generate_java_test",
                  "generate_java_test_with_javadoc"}
  /\ last.exc = NoExc

\* C16. A query, generate_java_test or generate_java_test_with_javadoc call
\* that returns has searched the index of the retrieval chain once with K = 5:
\* its context holds the five chunks most similar to the question it asked
\* (all chunks when the index holds fewer), most similar first, and no chunk
\* left out is more similar than one returned; it has called the generation
\* backend exactly once and returns the backend's answer.
C16_OneRetrievalOneGeneration ==
  Answered =>
    LET chunks == retrieval_chain.retriever.chunks IN
    /\ retrieval_chain.k = 5
    /\ Len(last.context) = (IF Len(chunks) < 5 THEN Len(chunks) ELSE 5)
    /\ LET used == {j \in 1..Len(chunks) :
                      \E i \in 1..Len(last.context) :
                        last.context[i] = chunks[j]}
       IN  /\ Cardinality(used) = Len(last.context)
           /\ \A i \in 1..Len(last.context) :
                \E j \in used : last.context[i] = chunks[j]
           /\ \A j \in (1..Len(chunks)) \ used :
                \A i \in 1..Len(last.context) :
                  Score(last.question, chunks[j])
                    <= Score(last.question, last.context[i])
    /\ \A i, j \in 1..Len(last.context) :
         i < j => Score(last.question, last.context[i])
                    >= Score(last.question, last.context[j])
    /\ last.llm_calls = 1
    /\ last.answer \in Answers

\* C16 witness: generate_java_test returned on an index of six chunks, its one
\* query having used five of them.
C16_Witness ==
  /\ last.op = "generate_java_test"
  /\ last.exc = NoExc
  /\ Len(retrieval_chain.retriever.chunks) = 6
  /\ Len(last.context) = 5
  /\ last.llm_calls = 1

\* C17 (as claimed). A query whose backend call fails raises GenerationError
\* carrying the request it was asked with; the backend was called once, and
\* vector_store and retrieval_chain are what they were before the call.
C17_BackendFailurePropagates ==
  [][ (last'.op = "query" /\ last'.exc.site = "llm")
        => /\ last'.exc.type = "GenerationError"
           /\ "request" \in DOMAIN last'.exc
           /\ last'.llm_calls = 1
           /\ vector_store' = vector_store
           /\ retrieval_chain' = retrieval_chain ]_vars

\* The number of times a token occurs in a code string.
Occurrences(code, token) == Cardinality({i \in 1..Len(code) : code[i] = token})

\* C18 (as claimed). The code _validate_javadoc returns holds every required
\* tag; a tag the input holds is not inserted again; a tag the input lacks
\* has its placeholder right behind an opening documentation delimiter or
\* behind the placeholder of another tag.
C18_MarkersRepaired ==
  jd_pc = "done" =>
    \A t \in 1..Len(RequiredTags) :
      LET tag == RequiredTags[t] IN
      /\ Contains(jd_result, tag)
      /\ Contains(jd_code, tag)
           => Occurrences(jd_result, tag) = Occurrences(jd_code, tag)
      /\ ~Contains(jd_code, tag)
           => \E i \in 2..(Len(jd_result) - 1) :
                /\ jd_result[i] = "\n * "
                /\ jd_result[i + 1] = tag
                /\ jd_result[i - 1] \in {DocOpen, " Generated"}

\* C19 (as claimed). generate_test_with_docs on an Indexed pipeline whose
\* embedding model and generation backend do not fail returns: it has made
\* one search for examples with the class description and k = examples_count,
\* one generation call, and the code it returns is the repaired answer of the
\* backend.
C19_DocumentedTestReturned ==
  (/\ last.op = "generate_test_with_docs"
   /\ Indexed
   /\ last.exc.site \notin {"similarity_search", "retriever", "llm"}) =>
    /\ last.exc = NoExc
    /\ last.llm_calls = 1
    /\ last.examples
         = SimilaritySearch(vector_store, last.search_query,
                            ExamplesCountDefault)
    /\ \E a \in Answers : last.answer = ValidateJavadoc(a)

\* C20 (as claimed). generate_test_with_docs on an Uninitialized pipeline
\* raises an error of the type query raises there, and has called neither the
\* embedding model (no search was made) nor the generation backend.
C20_SearchBeforeBuild ==
  (last.op = "generate_test_with_docs" /\ Uninitialized) =>
    /\ last.exc.type = ExcNotInitialized.type
    /\ last.examples = <<>>
    /\ last.examples_build = 0
    /\ last.llm_calls = 0

\* C22: a load_and_process_documents call over a batch whose every file yields
\* no text (each file fails to load, or loads Text Units that are all blank)
\* fails with the ingestion error of lines 91-92.
C22_NoTextIsIngestionError ==
  (/\ last.op = "load_and_process_documents"
   /\ \A i \in 1..Len(last.all_docs) : IsBlank(last.all_docs[i].page_content))
    => last.exc = ExcNoDocuments

\* The Text Units of the files of a batch that load, file after file.
RECURSIVE UnitsInOrder(_)
UnitsInOrder(batch) ==
  IF batch = <<>> THEN <<>>
  ELSE (IF FileLoads(Head(batch)) THEN LoadFile(Head(batch)).docs ELSE <<>>)
         \o UnitsInOrder(Tail(batch))

\* C23: the sequence of Text Units load_and_process_documents collects for the
\* chunker is the concatenation, in the order of file_paths, of the units of
\* each file that loads, the pages of a PDF with direct text in page order, and
\* holds nothing of a file whose loading failed.
C23_UnitsInInputOrder ==
  last.op = "load_and_process_documents" =>
    /\ last.all_docs = UnitsInOrder(last.batch)
    /\ \A i \in 1..Len(last.batch) :
         LET f == last.batch[i]
             before == Len(UnitsInOrder(SubSeq(last.batch, 1, i - 1)))
         IN  (FileLoads(f) /\ EndsWith(f.path, ExtPdf)
                /\ \E p \in 1..Len(f.pages) : ~IsBlank(f.pages[p]))
               => \A p \in 1..Len(f.pages) :
                    last.all_docs[before + p].page_content = f.pages[p]

\* C23 witness: a PDF of two pages and a source file were collected, in this
\* order, and handed to the chunker.
C23_Witness ==
  /\ last.op = "load_and_process_documents"
  /\ last.exc = NoExc
  /\ last.batch = <<FileDoc, FileJava>>
  /\ Len(last.all_docs) = 3

\* The generating calls of RAGService.
GeneratingOps ==
  {"query", "generate_java_test", "generate_java_test_with_javadoc"}

\* C24: a query, generate_java_test or generate_java_test_with_javadoc call,
\* whether it returns or raises, leaves vector_store, retrieval_chain,
\* chunk_size and chunk_overlap as they were; so two such calls with no build
\* between them search the same index, and with the same input retrieve the
\* same context.
C24_GenerationLeavesPipelineAlone ==
  [][last'.op \in GeneratingOps =>
       /\ UNCHANGED <<vector_store, retrieval_chain, chunk_size, chunk_overlap>>
       /\ (last.op \in GeneratingOps /\ last.exc = NoExc /\ last'.exc = NoExc)
            => /\ last'.context_build = last.context_build
               /\ last'.question = last.question
                    => last'.context = last.context]_vars

\* C24 witness: a generating call reached the backend and raised on a pipeline
\* that holds an index and the chain bound to it.
C24_Witness ==
  /\ last.op \in GeneratingOps
  /\ last.exc \notin {NoExc, ExcNotInitialized}
  /\ vector_store # None
  /\ retrieval_chain # None
  /\ retrieval_chain.retriever = vector_store

\* A _load_pdf call whose direct extraction raised is over.
PdfReadFailed ==
  /\ ld_pc = "done"
  /\ EndsWith(ld_file.path, ExtPdf)
  /\ ld_file.raises

\* C28: when the direct text extraction of a PDF raises, _load_pdf does not
\* run the OCR fallback and raises; the loop of load_and_process_documents
\* logs the file, takes no Text Unit from it and goes on with the next file.
C28_NoFallbackAfterReadError ==
  PdfReadFailed =>
    /\ ld_result.raised
    /\ ld_result.ocr_runs = 0
    /\ ld_result.docs = <<>>
    /\ LET loaded == LoadLoop(<<ld_file, FileJava>>, 1, <<>>, <<>>) IN
       /\ loaded.skipped = <<ld_file.path>>
       /\ loaded.all_docs = LoadFile(FileJava).docs

\* C28 witness: the direct read raised for a PDF whose page OCR could have
\* recognised.
C28_Witness ==
  /\ PdfReadFailed
  /\ ld_file.images # <<>>
  /\ ~ld_file.render_raises
  /\ \E i \in 1..Len(ld_file.images) : ~ld_file.images[i].fails

\* C30: _validate_javadoc is idempotent: a second call, on the code the first
\* call returned, returns that code unchanged, whether the code holds no
\* documentation delimiter, one or several.
C30_RepairIdempotent ==
  jd_pc = "twice" => jd_result = jd_code

\* C30 witness: the first call inserted placeholders behind several
\* delimiters, and the second call has returned.
C30_Witness ==
  /\ jd_pc = "twice"
  /\ Occurrences(jd_code, DocOpen) > 1
  /\ Len(jd_code) > MaxCode

\* A _fix_code_formatting call is over.
Formatted == fmt_pc = "done"

\* C29: for an input that starts with a fence the returned text does not start
\* with a fence and, if the input also ended with one, does not end with one;
\* an input that does not start with a fence is returned with only its
\* surrounding whitespace removed.
C29_FencesRemoved ==
  Formatted =>
    IF StartsWith(fmt_code, Fence)
    THEN /\ ~StartsWith(fmt_result, Fence)
         /\ EndsWith(fmt_code, Fence) => ~EndsWith(fmt_result, Fence)
    ELSE fmt_result = StripCode(fmt_code)

\* A parse_curl call has returned.
Parsed == curl_pc = "done"

\* The command holds a URL: a word curl followed by another word.
UrlGiven ==
  \E i \in 1..(Len(curl_command) - 1) : curl_command[i] = WordCurl

\* Every quoted header that follows a word -H holds a colon.
HeadersWellFormed ==
  \A i \in 1..(Len(curl_command) - 1) :
    (curl_command[i] = Word(FALSE, FlagH) /\ curl_command[i + 1].quoted)
      => \E j \in 1..Len(curl_command[i + 1].text) :
           curl_command[i + 1].text[j] = ":"

\* The command holds a body, and json.loads fails on it with an error other
\* than JSONDecodeError.
BodyDecodingFails ==
  /\ curl_decode = "RecursionError"
  /\ \E i \in 1..(Len(curl_command) - 1) :
       /\ curl_command[i] \in {Word(FALSE, FlagD), Word(FALSE, FlagDataRaw)}
       /\ curl_command[i + 1].quoted

\* What the claim says of a result besides the value of valid.
ResultWellFormed ==
  /\ curl_result.valid
       => curl_result.url # <<>> /\ "error" \notin DOMAIN curl_result
  /\ ~curl_result.valid => "error" \in DOMAIN curl_result

\* C27 (as claimed): parse_curl returns a result in which valid is True
\* exactly when a URL was found and every -H header holds a colon; url is then
\* non-empty and the result has no 'error' key; otherwise valid is False and
\* the result has the 'error' key.
C27_ValidIffUrlAndHeaders ==
  Parsed =>
    /\ curl_result.valid <=> (UrlGiven /\ HeadersWellFormed)
    /\ ResultWellFormed

\* C27 (amended): parse_curl returns a result in which valid is True exactly
\* when a URL was found, urlparse accepts it, every quoted -H header holds a
\* colon and decoding the body raises nothing but JSONDecodeError; url is then
\* non-empty and the result has no 'error' key; otherwise valid is False and
\* the result has the 'error' key.
C27_ValidIffParseCompletes ==
  Parsed =>
    /\ curl_result.valid
         <=> /\ UrlGiven
             /\ ~UrlParseRaises(curl_result.url)
             /\ HeadersWellFormed
             /\ ~BodyDecodingFails
    /\ ResultWellFormed

\* C27 witness: a command with a URL and a well-formed header was parsed as
\* valid.
C27_Witness ==
  /\ Parsed
  /\ curl_result.valid
  /\ curl_result.url = <<"h", ":", "/", "/", "a">>
  /\ DOMAIN curl_result.headers # {}

\* The contents of the first min(n, 3) examples of the sources directory, in
\* the order of the listing.
FirstExamples ==
  LET examples == SelectSeq(ag_sources, IsExample)
      n == IF Len(examples) < 3 THEN Len(examples) ELSE 3
  IN  [i \in 1..n |-> examples[i].content]

\* C21: generate_new_test passes as context the contents of the first
\* min(n, 3) of the n examples of the sources directory, in load order and
\* joined by line feeds; with no example the context is empty, and the
\* generation call is made all the same.
C21_ContextOfThreeExamples ==
  ag_last.op = "generate_new_test" =>
    /\ ag_last.out.gen_calls = 1
    /\ ag_last.out.context =
         (IF FirstExamples = <<>> THEN <<>>
          ELSE IF Len(FirstExamples) = 1 THEN FirstExamples[1]
          ELSE IF Len(FirstExamples) = 2
          THEN FirstExamples[1] \o <<Newline>> \o FirstExamples[2]
          ELSE FirstExamples[1] \o <<Newline>> \o FirstExamples[2]
                 \o <<Newline>> \o FirstExamples[3])
    /\ FirstExamples = <<>> => ag_last.out.context = <<>>

\* C21 witness: a directory of four examples, the backend answered.
C21_Witness ==
  /\ ag_last.op = "generate_new_test"
  /\ ag_last.out.status = "success"
  /\ Len(SelectSeq(ag_sources, IsExample)) = 4

\* C21 witness: a directory without examples, the generation call was made and
\* the backend answered.
C21_WitnessNoExample ==
  /\ ag_last.op = "generate_new_test"
  /\ ag_last.out.llm_calls = 1
  /\ ag_sources # <<>>
  /\ SelectSeq(ag_sources, IsExample) = <<>>

\* A generate_api_test_from_curl call has returned or raised.
CurlHandled == ag_last.op = "generate_api_test_from_curl"

\* The command of the latest handler call parses as valid.
CommandValid == ParseCurl(ag_last.curl_command, ag_last.decode).valid

\* C25: generate_api_test_from_curl returns a result with status 'error',
\* calls no generation and writes no file when the command does not parse as
\* valid, when framework is 'python', and when framework is neither 'java' nor
\* 'python'; the generation backend is reached only by a valid command with
\* framework 'java'.
C25_ErrorResultsWithoutGeneration ==
  CurlHandled =>
    /\ (~CommandValid \/ ag_last.framework # "java")
         => /\ ag_last.out.exc = NoExc
            /\ ag_last.out.status = "error"
            /\ ag_last.out.gen_calls = 0
            /\ ag_last.out.llm_calls = 0
            /\ ag_last.out.writes = 0
    /\ ag_last.out.gen_calls > 0
         => CommandValid /\ ag_last.framework = "java"
    /\ (CommandValid /\ ag_last.framework = "java")
         => ag_last.out.gen_calls = 1

\* C25 witness: a valid command with framework python was refused on a
\* pipeline that holds an index.
C25_Witness ==
  /\ CurlHandled
  /\ CommandValid
  /\ ag_last.framework = "python"
  /\ ag_last.out.status = "error"
  /\ retrieval_chain # None

\* The generation call of the latest handler call raised.
GenerationRaised ==
  /\ ag_last.op \in {"generate_new_test", "generate_api_test_from_curl"}
  /\ ag_last.out.gen_calls > 0
  /\ ag_last.out.gen_exc # NoExc

\* C26: when the generation call of generate_new_test or of
\* _generate_java_api_test raises, for want of an index or by a failure of the
\* backend, the handler writes no file in the generated directory and returns
\* no result with status 'success': the exception leaves the handler.
C26_NoFileWithoutGeneration ==
  [][GenerationRaised' =>
       /\ ag_generated' = ag_generated
       /\ ag_last'.out.writes = 0
       /\ ag_last'.out.status # "success"
       /\ ag_last'.out.exc = ag_last'.out.gen_exc]_vars

\* C26 witness: the backend failed during a handler call on a pipeline that
\* holds an index, a file of an earlier call being in the generated directory.
C26_Witness ==
  /\ GenerationRaised
  /\ ag_last.out.gen_exc.site = "llm"
  /\ DOMAIN ag_generated # {}

====
